---- MODULE Spec2Model ----
(***************************************************************************)
(* Agent Activity Simulation & Monitoring Core of companyOS.               *)
(*                                                                         *)
(* The monitoring dashboard (src/unnamed/part_002) keeps three bounded     *)
(* ledgers in React state (executions, dataOps, alerts) and drives them    *)
(* from one setInterval callback, the tick.  A tick queues two updaters    *)
(* on the executions ledger (spawn check, then the update map); the map    *)
(* queues prepends on the other two ledgers and registers setTimeout       *)
(* callbacks for the final data operations of a completion.                *)
(*                                                                         *)
(* Time is in milliseconds, durations in seconds as in the source.         *)
(* Math.random() draws are inputs of the actions.  The draws of the last   *)
(* tick are kept in the variable draws so that properties can speak about  *)
(* "the stop draw succeeded" or "the completion test succeeded".           *)
(***************************************************************************)
EXTENDS Integers, Sequences, FiniteSets, TLC

VARIABLES
    executions,   \* AgentExecution[]   (useState, part_002 line 155)
    dataOps,      \* DataOperation[]    (useState, part_002 line 229)
    alerts,       \* MonitoringAlert[]  (useState, part_002 line 261)
    timers,       \* pending setTimeout callbacks of completions (line 384)
    now,          \* wall clock, ms since the first state of the behaviour
    tickNo,       \* number of interval callbacks run since then
    nextId,       \* next fresh identifier (ids are unique strings in the source)
    draws,        \* the random draws of the last tick, one record per running execution
    selectedAlert, \* MonitoringAlert | null: none or one alert (useState, part_002 line 75)
    selectedAgent, \* AdminAgents: the agent whose chat is mounted, or "null" (AdminAgents.tsx line 25)
    mountNo,      \* the AgentChat component instance: number of mounts so far
    messages,     \* Message[]  (useState, part_003 line 41)
    inputMessage, \* string     (useState, part_003 line 42)
    isTyping,     \* boolean    (useState, part_003 line 43)
    typingMessage, \* string    (useState, part_003 line 44)
    chatTimers,   \* pending setTimeout callbacks of handleSendMessage, of every mount
    apiCalls,     \* optimizePricing requests in flight
    sendNo,       \* number of messages handleSendMessage has accepted
    chatLog,      \* the requests sent to the Pricing Service and the cache invalidations, in order
    user,         \* useAuthStore: User | null        (authStore.ts line 29)
    token,        \* useAuthStore: string | null      (authStore.ts line 30)
    isLoading,    \* useAuthStore: boolean            (authStore.ts line 31)
    auth_token,   \* localStorage item 'auth_token', or "null" (authService.ts lines 34, 55)
    loginCall,    \* the call of login that is awaiting a response, with the state it started from
    loginNo,      \* number of calls of login
    loginReturn   \* what the last call of login returned: "none", "pending", "true", "false"

dashVars == <<executions, dataOps, alerts, timers, tickNo, nextId, draws, selectedAlert>>
chatVars == <<selectedAgent, mountNo, messages, inputMessage, isTyping, typingMessage,
              chatTimers, apiCalls, sendNo, chatLog>>

authVars == <<user, token, isLoading, auth_token, loginCall, loginNo, loginReturn>>

vars == <<dashVars, now, chatVars, authVars>>

(***************************************************************************)
(* The auth store as created (authStore.ts lines 29-31), nothing stored    *)
(* under 'auth_token', and no login under way.                             *)
(***************************************************************************)
NoLoginCall == [pc |-> "idle", access_token |-> "null", userBefore |-> "null",
                tokenBefore |-> "null"]

AuthCreated ==
    /\ user = "null"
    /\ token = "null"
    /\ isLoading = FALSE
    /\ auth_token = "null"
    /\ loginCall = NoLoginCall
    /\ loginNo = 0
    /\ loginReturn = "none"

(***************************************************************************)
(* No chat is mounted: AdminAgents renders AgentChat only while            *)
(* selectedAgent is not null (AdminAgents.tsx lines 25, 384).              *)
(***************************************************************************)
ChatUnmounted ==
    /\ selectedAgent = "null"
    /\ mountNo = 0
    /\ messages = <<>>
    /\ inputMessage = <<>>
    /\ isTyping = FALSE
    /\ typingMessage = "Agent is thinking..."
    /\ chatTimers = {}
    /\ apiCalls = {}
    /\ sendNo = 0
    /\ chatLog = <<>>

(***************************************************************************)
(* Bounds of the exploration.                                              *)
(***************************************************************************)
MaxTicks == 2
MaxIds == 3

(***************************************************************************)
(* Program constants.                                                      *)
(***************************************************************************)
MaxRunning == 3
ExecKeep == 49
DataOpKeep == 99
AlertKeep == 14
ExecCapacity == 50
DataOpCapacity == 100
AlertCapacity == 15
TickDelta == 2
TickPeriod == 2000
StaggerMs == 200
ThresholdBase == 3
ThresholdSpan == 12

\* The catalogs the draws pick from, cut to the entries the exploration uses: two
\* of the nine agent names, one of the twelve operations, one of the seven
\* tables, the first two of the six alert types.
AgentNames == {"InventoryAgent", "PricingAgent"}
Operations == {"Analyzing inventory levels"}
Tables == {"products"}
DbOperations_WithDelete == {"SELECT", "INSERT", "UPDATE", "DELETE"}
DbOperations == {"SELECT", "INSERT", "UPDATE"}
AlertReasons == <<"Low confidence score detected", "Data quality degradation",
                  "Model accuracy drift detected", "Anomalous prediction patterns",
                  "Feature importance shift", "Prediction latency spike">>
AlertSeverities == <<"medium", "high", "high", "medium", "low", "medium">>
AlertTypeDraws == {1, 2}
DataProcessedDraws == {10000}
RecordsAffectedDraws == {5000}

\* the threshold is drawn from [3, 18)
ThresholdDraws_UpTo17 == ThresholdBase .. (ThresholdBase + ThresholdSpan + 2)

\* 3 + Math.random() * 12 lies in [3, 15); against an integer duration only its
\* integer part decides the comparison newDuration > threshold.
ThresholdDraws == ThresholdBase .. (ThresholdBase + ThresholdSpan - 1)

Min(a, b) == IF a < b THEN a ELSE b
Max(a, b) == IF a > b THEN a ELSE b

\* Array.prototype.slice(0, n)
Slice(s, n) == SubSeq(s, 1, Min(n, Len(s)))

RunningIdx(execs) == {i \in DOMAIN execs : execs[i].status = "running"}
RunningCount(execs) == Cardinality(RunningIdx(execs))

(***************************************************************************)
(* Generators.                                                             *)
(***************************************************************************)
GenerateExecution(id, t, agent, operation, processed) ==
    [id |-> id, agentName |-> agent, operation |-> operation, status |-> "running",
     startTime |-> t, duration |-> 0, dataProcessed |-> processed]

GenerateDataOperation(id, t, agent, table, op, records) ==
    [id |-> id, table |-> table, operation |-> op, recordsAffected |-> records,
     timestamp |-> t, agent |-> agent]

\* the alert names a fixed agent instead of the stopped execution's
GenerateAlert_WrongAgent(id, t, agentName, type) ==
    [id |-> id, agentName |-> "InventoryAgent", reason |-> AlertReasons[type],
     timestamp |-> t, severity |-> AlertSeverities[type]]

GenerateAlert(id, t, agentName, type) ==
    [id |-> id, agentName |-> agentName, reason |-> AlertReasons[type],
     timestamp |-> t, severity |-> AlertSeverities[type]]

(***************************************************************************)
(* Ledger appends: prepend and keep the head of the previous list.         *)
(***************************************************************************)
\* at capacity the head of the previous list is dropped, not its tail
PrependExecution_DropHead(e, prev) ==
    IF Len(prev) > ExecKeep THEN <<e>> \o SubSeq(prev, 2, ExecCapacity) ELSE <<e>> \o prev

\* the new execution is put behind the kept entries
PrependExecution_AtTail(e, prev) == Slice(prev, ExecKeep) \o <<e>>

PrependExecution(e, prev) == <<e>> \o Slice(prev, ExecKeep)

\* slice(0, 100): keeps the whole previous list
PrependDataOp_KeepAll(op, prev) == <<op>> \o Slice(prev, DataOpCapacity)

PrependDataOp(op, prev) == <<op>> \o Slice(prev, DataOpKeep)

\* slice(0, 13): drops two entries for one insertion
PrependAlert_DropTwo(a, prev) == <<a>> \o Slice(prev, AlertKeep - 1)

\* the new alert is left out of the new list
PrependAlert_Forget(a, prev) == Slice(prev, AlertKeep)

PrependAlert(a, prev) == <<a>> \o Slice(prev, AlertKeep)

(***************************************************************************)
(* First updater of a tick: the spawn check.                               *)
(***************************************************************************)
\* the bound test off by one: runningCount <= 3
ShouldSpawn_OffByOne(runningCount, coin) ==
    runningCount = 0 \/ (runningCount <= MaxRunning /\ coin)

ShouldSpawn(runningCount, coin) ==
    runningCount = 0 \/ (runningCount < MaxRunning /\ coin)

SpawnCheck(prev, coin, newExecution) ==
    IF ShouldSpawn(RunningCount(prev), coin)
    THEN PrependExecution(newExecution, prev)
    ELSE prev

(***************************************************************************)
(* Second updater of a tick: the update map.                               *)
(***************************************************************************)
\* the running branch taken for everything that is not completed
IsRunning_NotCompleted(exec) == exec.status # "completed"

IsRunning(exec) == exec.status = "running"

ShouldComplete(newDuration, threshold) == newDuration > threshold

\* the stop keeps the old duration
StoppedExecution_OldDuration(exec, newDuration) ==
    [exec EXCEPT !.status = "stopped"]

StoppedExecution(exec, newDuration) ==
    [exec EXCEPT !.status = "stopped", !.duration = newDuration]
CompletedExecution(exec, newDuration) ==
    [exec EXCEPT !.status = "completed", !.duration = newDuration]
AdvancedExecution(exec, newDuration) ==
    [exec EXCEPT !.duration = newDuration]

\* a completion registers no final data operation
FinalTimers_None(agent, numOps, t) == <<>>

FinalTimers(agent, numOps, t) ==
    [i \in 1..numOps |-> [agent |-> agent, due |-> t + (i - 1) * StaggerMs]]

\* The draws one call of the map callback consumes (id: the execution they are
\* for).  The threshold of the completion test is drawn for every call, also for
\* those that stop first and never evaluate it.
NoDraw == [id |-> 0, emit |-> FALSE, table |-> "products", op |-> "SELECT", records |-> 5000,
           stop |-> FALSE, alertType |-> 1, threshold |-> ThresholdBase, numOps |-> 1]

\* the completion test placed before the stop test
UpdateExecution_CompleteFirst(acc, exec, d, t) ==
    IF IsRunning(exec)
    THEN LET newDuration == exec.duration + TickDelta
             a1 == IF d.emit
                   THEN [acc EXCEPT
                           !.dataOps = PrependDataOp(
                               GenerateDataOperation(acc.nextId, t, exec.agentName,
                                                     d.table, d.op, d.records), @),
                           !.nextId = @ + 1]
                   ELSE acc
         IN  IF ShouldComplete(newDuration, d.threshold)
             THEN [a1 EXCEPT
                     !.timers = @ \o FinalTimers(exec.agentName, d.numOps, t),
                     !.exec = CompletedExecution(exec, newDuration)]
             ELSE IF d.stop
             THEN [a1 EXCEPT
                     !.alerts = PrependAlert(
                         GenerateAlert(a1.nextId, t, exec.agentName, d.alertType), @),
                     !.nextId = @ + 1,
                     !.exec = StoppedExecution(exec, newDuration)]
             ELSE [a1 EXCEPT !.exec = AdvancedExecution(exec, newDuration)]
    ELSE [acc EXCEPT !.exec = exec]

\* The callback of prev.map for one execution.  acc holds the updates queued so
\* far in this tick, [dataOps, alerts, timers, nextId]; the result adds the
\* callback's return value as exec.  d: the draws this call consumes.
UpdateExecution(acc, exec, d, t) ==
    IF IsRunning(exec)
    THEN LET newDuration == exec.duration + TickDelta
             a1 == IF d.emit
                   THEN [acc EXCEPT
                           !.dataOps = PrependDataOp(
                               GenerateDataOperation(acc.nextId, t, exec.agentName,
                                                     d.table, d.op, d.records), @),
                           !.nextId = @ + 1]
                   ELSE acc
         IN  IF d.stop
             THEN [a1 EXCEPT
                     !.alerts = PrependAlert(
                         GenerateAlert(a1.nextId, t, exec.agentName, d.alertType), @),
                     !.nextId = @ + 1,
                     !.exec = StoppedExecution(exec, newDuration)]
             ELSE IF ShouldComplete(newDuration, d.threshold)
             THEN [a1 EXCEPT
                     !.timers = @ \o FinalTimers(exec.agentName, d.numOps, t),
                     !.exec = CompletedExecution(exec, newDuration)]
             ELSE [a1 EXCEPT !.exec = AdvancedExecution(exec, newDuration)]
    ELSE [acc EXCEPT !.exec = exec]

RECURSIVE SortedSeq(_)
SortedSeq(S) ==
    IF S = {} THEN <<>>
    ELSE LET m == CHOOSE x \in S : \A y \in S : x <= y
         IN  <<m>> \o SortedSeq(S \ {m})

\* The positions whose callback takes the running branch, in list order.
UpdatedIdx(prev) == SortedSeq({i \in DOMAIN prev : IsRunning(prev[i])})

\* The calls of the map callback that consume draws and queue updates, in list
\* order: idx are their positions, ds[k] the draws of the k-th.  acc.res collects
\* their return values.
RECURSIVE UpdateRunning(_, _, _, _, _, _)
UpdateRunning(prev, idx, ds, k, acc, t) ==
    IF k > Len(idx) THEN acc
    ELSE LET r == UpdateExecution(acc, prev[idx[k]], ds[k], t)
         IN  UpdateRunning(prev, idx, ds, k + 1, [r EXCEPT !.res = Append(@, r.exec)], t)

\* prev.map(...): every execution goes through the callback; out is the mapped
\* list.  A call that does not take the running branch returns its argument and
\* touches nothing else.
UpdateExecutions(prev, ds, acc, t) ==
    LET idx == UpdatedIdx(prev)
        r == UpdateRunning(prev, idx, ds, 1, acc, t)
    IN  [r EXCEPT !.out =
            [i \in DOMAIN prev |->
                IF IsRunning(prev[i])
                THEN r.res[Cardinality({j \in DOMAIN idx : idx[j] <= i})]
                ELSE UpdateExecution(acc, prev[i], NoDraw, t).exec]]

(***************************************************************************)
(* The draws a running execution can consume, one representative per       *)
(* outcome: draws the code never reads are fixed, and of the thresholds    *)
(* that give the same comparison only the least is kept.  budget is the    *)
(* number of fresh identifiers still available.                            *)
(***************************************************************************)
CanonThresholds(newDuration) ==
    {th \in ThresholdDraws :
        \A t2 \in ThresholdDraws :
            ShouldComplete(newDuration, t2) = ShouldComplete(newDuration, th) => th <= t2}

DrawCost(exec, d) ==
    (IF d.emit THEN 1 ELSE 0)
    + (IF d.stop THEN 1
       ELSE IF ShouldComplete(exec.duration + TickDelta, d.threshold) THEN d.numOps
       ELSE 0)

DrawsFor(exec, budget) ==
    LET nd == exec.duration + TickDelta
        emits == {[NoDraw EXCEPT !.id = exec.id]}
                 \cup {[NoDraw EXCEPT !.id = exec.id, !.emit = TRUE, !.table = tb,
                                      !.op = op, !.records = r] :
                        tb \in Tables, op \in DbOperations, r \in RecordsAffectedDraws}
        stops(e) == {[e EXCEPT !.stop = TRUE, !.alertType = a, !.threshold = th] :
                        a \in AlertTypeDraws, th \in CanonThresholds(nd)}
        goes(e) == UNION {{[e EXCEPT !.threshold = th, !.numOps = n] :
                              n \in 1..(IF ShouldComplete(nd, th) THEN 2 ELSE 1)} :
                          th \in CanonThresholds(nd)}
    IN  {d \in UNION {stops(e) \cup goes(e) : e \in emits} : DrawCost(exec, d) <= budget}

RECURSIVE DrawSeqs(_, _, _, _)
DrawSeqs(prev, idx, k, budget) ==
    IF k > Len(idx) THEN {<<>>}
    ELSE UNION {{<<d>> \o rest :
                    rest \in DrawSeqs(prev, idx, k + 1, budget - DrawCost(prev[idx[k]], d))} :
                d \in DrawsFor(prev[idx[k]], budget)}

IdsLeft == MaxIds - (nextId - 1) - Len(timers)

(***************************************************************************)
(* The useState initialisers (part_002 lines 155-285).  Each loop pushes   *)
(* its entries, then the list is sorted most recent first.  The mount      *)
(* time is 0, so the initial time stamps are negative.  The loop counts    *)
(* and the agents and durations of the entries are the random inputs; the  *)
(* k-th entry of a loop takes the k-th agent of a rotation that starts at  *)
(* a drawn seed, and its age is spread over the window the source draws    *)
(* from.                                                                   *)
(***************************************************************************)
AgentSeq == <<"InventoryAgent", "PricingAgent">>
AgentAt(k) == AgentSeq[(k % Len(AgentSeq)) + 1]

SortKey(x) == IF "startTime" \in DOMAIN x THEN x.startTime ELSE x.timestamp

\* Array.prototype.sort((a, b) => key(b) - key(a)): descending and stable
RECURSIVE InsertDesc(_, _)
InsertDesc(x, s) ==
    IF s = <<>> THEN <<x>>
    ELSE IF SortKey(Head(s)) >= SortKey(x) THEN <<Head(s)>> \o InsertDesc(x, Tail(s))
    ELSE <<x>> \o s

RECURSIVE SortDesc(_)
SortDesc(s) ==
    IF s = <<>> THEN <<>>
    ELSE InsertDesc(s[Len(s)], SortDesc(SubSeq(s, 1, Len(s) - 1)))

InitialRunning(i, agent, duration) ==
    [id |-> -(i + 1), agentName |-> agent,
     operation |-> CHOOSE o \in Operations : TRUE, status |-> "running",
     startTime |-> 0 - duration * 1000, duration |-> duration,
     dataProcessed |-> 10000]

InitialCompleted(i, seed) ==
    LET completedTime == 0 - i * 90000
        duration == 3 + (i % 12)
    IN  [id |-> -(10 + i + 1), agentName |-> AgentAt(i + seed),
         operation |-> CHOOSE o \in Operations : TRUE, status |-> "completed",
         startTime |-> completedTime - duration * 1000, duration |-> duration,
         dataProcessed |-> 10000]

InitialStopped(i, seed) ==
    LET stoppedTime == 0 - (i * 200000 + 5000)
        duration == 1 + (i % 3)
    IN  [id |-> -(40 + i + 1), agentName |-> AgentAt(i + seed),
         operation |-> CHOOSE o \in Operations : TRUE, status |-> "stopped",
         startTime |-> stoppedTime - duration * 1000, duration |-> duration,
         dataProcessed |-> 5000]

InitialExecutions(runs, nCompleted, nStopped, seed) ==
    SortDesc([i \in 1..Len(runs) |-> InitialRunning(i - 1, runs[i][1], runs[i][2])]
             \o [i \in 1..nCompleted |-> InitialCompleted(i - 1, seed)]
             \o [i \in 1..nStopped |-> InitialStopped(i - 1, seed)])

InitialDataOps(n, seed) ==
    SortDesc([i \in 1..n |->
        GenerateDataOperation(-(100 + i), 0 - (i - 1) * 60000, AgentAt(i + seed),
                              CHOOSE tb \in Tables : TRUE,
                              IF i % 10 = 3 THEN "INSERT"
                              ELSE IF i % 10 = 7 THEN "UPDATE" ELSE "SELECT",
                              5000)])

InitialAlerts(n, seed) ==
    SortDesc([i \in 1..n |->
        GenerateAlert(-(200 + i), 0 - ((i - 1) * 300000 + 1000), AgentAt(i + seed),
                      IF i = 2 THEN 2 ELSE 1)])

\* Inputs of the initialisers.  The running loop draws an age below 15 s for
\* each entry (line 175); the other loops run 15-20, 2-4, 20-30 and 1-3 times
\* (lines 190, 208, 239, 271).  variant 0 takes the least counts and starts the
\* agent rotation at its first name, variant 1 the greatest counts and the second.
\* The running entries are 13, 1 and 7 seconds old: one that must complete in its
\* next update, one that cannot, and one that may.
InitRunningDurations == <<13, 1, 7>>
InitRunDraws(n) == {SubSeq(InitRunningDurations, 1, n)}
MinCompleted == 15
MaxCompleted == 20
MinStopped == 2
MaxStopped == 4
MinDataOps == 20
MaxDataOps == 30
MinAlerts == 1
MaxAlerts == 3

Init ==
    /\ \E nRunning \in 1..MaxRunning, variant \in 0..1 :
         \E durs \in InitRunDraws(nRunning) :
            /\ executions = InitialExecutions(
                   [i \in 1..nRunning |-> <<AgentAt(i + variant), durs[i]>>],
                   IF variant = 0 THEN MinCompleted ELSE MaxCompleted,
                   IF variant = 0 THEN MinStopped ELSE MaxStopped, variant)
            /\ dataOps = InitialDataOps(IF variant = 0 THEN MinDataOps ELSE MaxDataOps,
                                        variant)
            /\ alerts = InitialAlerts(IF variant = 0 THEN MinAlerts ELSE MaxAlerts, variant)
    /\ timers = <<>>
    /\ now = 0
    /\ tickNo = 0
    /\ nextId = 1
    /\ draws = <<>>
    /\ selectedAlert = <<>>
    /\ AuthCreated
    /\ ChatUnmounted

(***************************************************************************)
(* A dashboard that has been open for a long time: every ledger is at its  *)
(* capacity, the state is at a tick boundary with no timeout pending.      *)
(* The running executions were spawned by the last ticks, one per tick, so *)
(* the k-th from the head has run for 2k seconds; the entries behind them  *)
(* are terminal, a stopped one every fifth.  Time 0 is the boundary.       *)
(***************************************************************************)
SteadyExecution(i, nRunning, variant) ==
    IF i <= nRunning
    THEN [id |-> -i, agentName |-> AgentAt(i + variant),
          operation |-> CHOOSE o \in Operations : TRUE, status |-> "running",
          startTime |-> 0 - (i - 1) * TickPeriod, duration |-> i * TickDelta,
          dataProcessed |-> 10000]
    ELSE LET stopped == (i % 5 = 0)
             duration == IF stopped THEN 2 + 2 * (i % 3) ELSE 4 + 2 * (i % 6)
         IN  [id |-> -i, agentName |-> AgentAt(i + variant),
              operation |-> CHOOSE o \in Operations : TRUE,
              status |-> IF stopped THEN "stopped" ELSE "completed",
              startTime |-> 0 - (i + 2) * TickPeriod, duration |-> duration,
              dataProcessed |-> 10000]

InitSteady ==
    /\ \E nRunning \in {1}, variant \in {0} :
        /\ executions = [i \in 1..ExecCapacity |-> SteadyExecution(i, nRunning, variant)]
        /\ dataOps = [i \in 1..DataOpCapacity |->
                        GenerateDataOperation(-(100 + i), 0 - (i - 1) * StaggerMs,
                            AgentAt(i + variant), CHOOSE tb \in Tables : TRUE,
                            IF i % 10 = 3 THEN "INSERT"
                            ELSE IF i % 10 = 7 THEN "UPDATE" ELSE "SELECT", 5000)]
        /\ alerts = [i \in 1..AlertCapacity |->
                        GenerateAlert(-(200 + i), 0 - i * 10 * TickPeriod,
                                      AgentAt(i + variant), IF i % 3 = 0 THEN 2 ELSE 1)]
    /\ timers = <<>>
    /\ now = 0
    /\ tickNo = 0
    /\ nextId = 1
    /\ draws = <<>>
    /\ selectedAlert = <<>>
    /\ AuthCreated
    /\ ChatUnmounted

(***************************************************************************)
(* The same dashboard with executions that have been running for long:     *)
(* the two running executions were spawned one tick after the other and    *)
(* have been advanced by six and by seven ticks.                           *)
(***************************************************************************)
AgedTicks == 5

AgedExecution(i, nRunning) ==
    IF i <= nRunning
    THEN [SteadyExecution(i, nRunning, 0) EXCEPT
            !.startTime = 0 - (i + AgedTicks - 1) * TickPeriod,
            !.duration = (i + AgedTicks) * TickDelta]
    ELSE [SteadyExecution(i, nRunning, 0) EXCEPT
            !.startTime = 0 - (i + AgedTicks + 2) * TickPeriod]

InitAged ==
    /\ \E nRunning \in {2} :
        /\ executions = [i \in 1..ExecCapacity |-> AgedExecution(i, nRunning)]
        /\ dataOps = [i \in 1..DataOpCapacity |->
                        GenerateDataOperation(-(100 + i), 0 - (i - 1) * StaggerMs,
                            AgentAt(i), CHOOSE tb \in Tables : TRUE,
                            IF i % 10 = 3 THEN "INSERT"
                            ELSE IF i % 10 = 7 THEN "UPDATE" ELSE "SELECT", 5000)]
        /\ alerts = [i \in 1..AlertCapacity |->
                        GenerateAlert(-(200 + i), 0 - i * 10 * TickPeriod,
                                      AgentAt(i), IF i % 3 = 0 THEN 2 ELSE 1)]
    /\ timers = <<>>
    /\ now = 0
    /\ tickNo = 0
    /\ nextId = 1
    /\ draws = <<>>
    /\ selectedAlert = <<>>
    /\ AuthCreated
    /\ ChatUnmounted

(***************************************************************************)
(* The scenario of a scheduler started on empty ledgers.                   *)
(***************************************************************************)
InitEmpty ==
    /\ executions = <<>>
    /\ dataOps = <<>>
    /\ alerts = <<>>
    /\ timers = <<>>
    /\ now = 0
    /\ tickNo = 0
    /\ nextId = 1
    /\ draws = <<>>
    /\ selectedAlert = <<>>
    /\ AuthCreated
    /\ ChatUnmounted

(***************************************************************************)
(* The interval callback (part_002 lines 346-397).                         *)
(***************************************************************************)
Tick ==
    /\ tickNo < MaxTicks
    /\ timers = <<>>     \* timeouts of 0 and 200 ms fire before the next 2000 ms interval
    /\ \E coin \in BOOLEAN, agent \in AgentNames, operation \in Operations,
          processed \in DataProcessedDraws :
        LET t == now + TickPeriod
            rc == RunningCount(executions)
            spawns == ShouldSpawn(rc, coin)
            spawned == SpawnCheck(executions, coin,
                                  GenerateExecution(nextId, t, agent, operation, processed))
            id1 == IF spawns THEN nextId + 1 ELSE nextId
        IN  /\ spawns => IdsLeft >= 1
            \* draws that are not consumed are not enumerated
            /\ ShouldSpawn(rc, TRUE) = ShouldSpawn(rc, FALSE) => ~coin
            /\ ~spawns => (agent = CHOOSE a \in AgentNames : TRUE)
            /\ \E ds \in DrawSeqs(spawned, UpdatedIdx(spawned), 1, IdsLeft - (id1 - nextId)) :
                \E r \in {UpdateExecutions(spawned, ds,
                             [out |-> <<>>, res |-> <<>>, exec |-> <<>>, dataOps |-> dataOps,
                              alerts |-> alerts, timers |-> timers, nextId |-> id1], t)} :
                    /\ executions' = r.out
                    /\ dataOps' = r.dataOps
                    /\ alerts' = r.alerts
                    /\ timers' = r.timers
                    /\ nextId' = r.nextId
                    /\ draws' = ds
                    /\ now' = t
                    /\ tickNo' = tickNo + 1
    /\ UNCHANGED <<selectedAlert, chatVars, authVars>>

(***************************************************************************)
(* A setTimeout callback of a completion (part_002 lines 384-387).         *)
(***************************************************************************)
NextTimer(tm) ==
    CHOOSE k \in DOMAIN tm :
        \A j \in DOMAIN tm : tm[k].due < tm[j].due \/ (tm[k].due = tm[j].due /\ k <= j)

RemoveAt(s, k) == SubSeq(s, 1, k - 1) \o SubSeq(s, k + 1, Len(s))

FireTimer_WithAlert ==
    /\ timers # <<>>
    /\ \E tb \in Tables, op \in DbOperations, r \in RecordsAffectedDraws :
        LET k == NextTimer(timers)
            t == Max(now, timers[k].due)
        IN  /\ dataOps' = PrependDataOp(
                   GenerateDataOperation(nextId, t, timers[k].agent, tb, op, r), dataOps)
            /\ alerts' = PrependAlert(GenerateAlert(nextId + 1, t, timers[k].agent, 1), alerts)
            /\ timers' = RemoveAt(timers, k)
            /\ nextId' = nextId + 2
            /\ now' = t
    /\ UNCHANGED <<executions, tickNo, draws>>
    /\ UNCHANGED <<selectedAlert, chatVars, authVars>>

FireTimer ==
    /\ timers # <<>>
    /\ \E tb \in Tables, op \in DbOperations, r \in RecordsAffectedDraws :
        LET k == NextTimer(timers)
            t == Max(now, timers[k].due)
        IN  /\ dataOps' = PrependDataOp(
                   GenerateDataOperation(nextId, t, timers[k].agent, tb, op, r), dataOps)
            /\ timers' = RemoveAt(timers, k)
            /\ nextId' = nextId + 1
            /\ now' = t
    /\ UNCHANGED <<executions, alerts, tickNo, draws>>
    /\ UNCHANGED <<selectedAlert, chatVars, authVars>>

Next == Tick \/ FireTimer

Spec == Init /\ [][Next]_vars

SpecSteady == InitSteady /\ [][Next]_vars

SpecEmpty == InitEmpty /\ [][Next]_vars

SpecAged == InitAged /\ [][Next]_vars

InitAny == Init \/ InitEmpty

SpecAny == InitAny /\ [][Next]_vars

(***************************************************************************)
(* Properties.                                                             *)
(***************************************************************************)
StatusCount(execs, status) ==
    Cardinality({i \in DOMAIN execs : execs[i].status = status})

\* An entry created since the first state of the behaviour.
Fresh(x) == x.id >= 1

\* C1: after every tick (and in the initial state, pre-populated or empty) at
\* most 3 executions have status 'running'.
C1_RunningAtMostThree == StatusCount(executions, "running") <= 3

\* a tick has spawned an execution and brought the running count to 3
C1_Witness ==
    /\ tickNo >= 1
    /\ StatusCount(executions, "running") = 3
    /\ \E i \in DOMAIN executions : Fresh(executions[i]) /\ executions[i].status = "running"

\* C2: after every tick, a ledger that holds any execution holds at least one
\* running execution.
C2_AtLeastOneRunning ==
    (tickNo >= 1 /\ Len(executions) > 0) => StatusCount(executions, "running") >= 1

C4_LedgersWithinCapacity ==
    /\ Len(executions) <= 50
    /\ Len(dataOps) <= 100
    /\ Len(alerts) <= 15

\* full ledgers have taken a spawn and both deferred final data operations of a
\* completion (the second one is stamped 200 ms after its tick)
C4_Witness ==
    /\ Len(executions) = 50 /\ Fresh(executions[1])
    /\ Len(dataOps) = 100
    /\ \E i \in DOMAIN dataOps :
          Fresh(dataOps[i]) /\ dataOps[i].timestamp % TickPeriod = StaggerMs

\* The step from ledger old to ledger new keeps the most recent cap entries in
\* insertion order: the k entries created in the step are at the head, newest
\* first, followed by the head of old, and one entry is dropped from the tail for
\* each insertion beyond cap.  same(a, b): b is the entry a.
RetainsMostRecent(old, new, cap, firstNew, same(_, _)) ==
    LET k == Cardinality({i \in DOMAIN new : new[i].id >= firstNew})
    IN  /\ \A i \in 1..k : new[i].id >= firstNew
        /\ \A i \in 1..(k - 1) : new[i].id > new[i + 1].id
        /\ Len(new) = Min(cap, Len(old) + k)
        /\ \A i \in (k + 1)..Len(new) : same(old[i - k], new[i])

SameId(a, b) == a.id = b.id
SameEntry(a, b) == a = b

\* C5: every step leaves in each ledger exactly the most recently inserted
\* capacity-many entries in insertion order, newest at the head; an insertion at
\* capacity removes only the single oldest entry.
C5_RetainsMostRecent ==
    [][/\ RetainsMostRecent(executions, executions', 50, nextId, SameId)
       /\ RetainsMostRecent(dataOps, dataOps', 100, nextId, SameEntry)
       /\ RetainsMostRecent(alerts, alerts', 15, nextId, SameEntry)]_vars

\* two data operations and an alert were inserted into full ledgers, and exactly
\* the two oldest data operations and the oldest alert are gone
C5_Witness ==
    /\ Len(dataOps) = 100 /\ Fresh(dataOps[2]) /\ ~Fresh(dataOps[3])
    /\ dataOps[100].id = -(100 + 98)
    /\ Len(alerts) = 15 /\ Fresh(alerts[1]) /\ alerts[15].id = -(200 + 14)

\* The executions stopped in the step, and the alerts created in it, for agent a.
StoppedInStep(a) ==
    {i \in DOMAIN executions' :
        /\ executions'[i].status = "stopped"
        /\ executions'[i].agentName = a
        /\ ~\E j \in DOMAIN executions :
              executions[j].id = executions'[i].id /\ executions[j].status = "stopped"}
AlertsOfStep(a) ==
    {i \in DOMAIN alerts' : alerts'[i].id >= nextId /\ alerts'[i].agentName = a}

\* C6: a tick appends, for every agent name, exactly as many alerts as it stops
\* executions of that name: one alert per stop, stamped with the tick, and no
\* alert for an execution it does not stop.  No other step appends an alert.
C6_OneAlertPerStop ==
    [][/\ \A a \in AgentNames :
             Cardinality(StoppedInStep(a)) = Cardinality(AlertsOfStep(a))
       /\ \A i \in DOMAIN alerts' :
             alerts'[i].id >= nextId =>
                /\ tickNo' = tickNo + 1
                /\ alerts'[i].timestamp = now'
                /\ alerts'[i].agentName \in AgentNames]_vars

\* a tick stopped a pre-populated running execution and its alert heads the ledger
C6_Witness ==
    /\ \E i \in DOMAIN executions :
          /\ executions[i].status = "stopped"
          /\ executions[i].id \in (0 - MaxRunning)..(-1)
          /\ alerts # <<>> /\ Fresh(alerts[1])
          /\ alerts[1].agentName = executions[i].agentName
          /\ alerts[1].timestamp = now

\* C7 as stated: in every state the stopped executions and the alerts match one
\* to one per agent name.
C7_StoppedMatchAlerts ==
    \A a \in AgentNames :
        Cardinality({i \in DOMAIN executions :
                        executions[i].status = "stopped" /\ executions[i].agentName = a})
        = Cardinality({i \in DOMAIN alerts : alerts[i].agentName = a})

\* An execution the ticks of this behaviour stopped: the pre-populated stopped
\* entries carry the ids below those of the pre-populated running ones.
StoppedByTick(e) == e.status = "stopped" /\ e.id >= 0 - MaxRunning

\* C7 amended: while neither the executions ledger nor the alert ledger has
\* reached its capacity (nothing has been evicted), the executions stopped by
\* ticks and the alerts appended by ticks match one to one per agent name.
C7_TickStoppedMatchTickAlerts ==
    (Len(executions) < 50 /\ Len(alerts) < 15) =>
        \A a \in AgentNames :
            Cardinality({i \in DOMAIN executions :
                            StoppedByTick(executions[i]) /\ executions[i].agentName = a})
            = Cardinality({i \in DOMAIN alerts :
                            Fresh(alerts[i]) /\ alerts[i].agentName = a})

\* an execution spawned by a tick was stopped by a later tick; its alert is there
C7_Witness ==
    /\ Len(executions) < 50 /\ Len(alerts) < 15
    /\ \E i \in DOMAIN executions, j \in DOMAIN alerts :
          /\ Fresh(executions[i]) /\ executions[i].status = "stopped"
          /\ executions[i].duration > TickDelta
          /\ Fresh(alerts[j]) /\ alerts[j].agentName = executions[i].agentName

\* The number of executions the step put at the head of the ledger (0 or 1): the
\* execution at position j of the new ledger is the one at j - SpawnedInStep of
\* the old one.
SpawnedInStep ==
    IF executions' # <<>> /\ executions'[1].id >= nextId THEN 1 ELSE 0

\* C8: a tick adds exactly 2 to the duration of every execution that is running
\* at its start, also when it stops or completes it, and leaves the duration of
\* a completed or stopped execution as it is; no other step changes a duration.
C8_DurationAdvance ==
    [][\A j \in DOMAIN executions' :
          j > SpawnedInStep =>
             /\ executions'[j].id = executions[j - SpawnedInStep].id
             /\ executions'[j].duration =
                   executions[j - SpawnedInStep].duration
                   + (IF tickNo' # tickNo /\ executions[j - SpawnedInStep].status = "running"
                      THEN 2 ELSE 0)]_vars

\* after two ticks: one execution was completed by the first and kept its
\* duration through the second, another was advanced by both
C8_Witness ==
    /\ tickNo = 2
    /\ \E i, j \in DOMAIN executions :
          /\ executions[i].id = -1 /\ executions[i].status = "completed"
          /\ executions[i].duration = 15
          /\ executions[j].id = -2 /\ executions[j].status = "running"
          /\ executions[j].duration = 5

\* C9: the only status changes are running -> completed and running -> stopped,
\* and no step changes any field of a completed or stopped execution.
C9_TerminalIsFinal ==
    [][\A j \in DOMAIN executions' :
          j > SpawnedInStep =>
             /\ executions'[j].id = executions[j - SpawnedInStep].id
             /\ executions'[j].status # executions[j - SpawnedInStep].status =>
                   /\ executions[j - SpawnedInStep].status = "running"
                   /\ executions'[j].status \in {"completed", "stopped"}
             /\ executions[j - SpawnedInStep].status \in {"completed", "stopped"} =>
                   executions'[j] = executions[j - SpawnedInStep]]_vars

\* after two ticks: an execution stopped by the first is as the stop left it
C9_Witness ==
    /\ tickNo = 2
    /\ \E i \in DOMAIN executions :
          /\ executions[i].id = -1 /\ executions[i].status = "stopped"
          /\ executions[i].duration = 15
    /\ \E i \in DOMAIN alerts : Fresh(alerts[i]) /\ alerts[i].timestamp = TickPeriod

ExecutionWithId(execs, id) == execs[CHOOSE i \in DOMAIN execs : execs[i].id = id]

\* The draws d met both conditions: the stop draw succeeded and the duration the
\* execution reached in the tick exceeds the drawn completion threshold.
StopAndComplete(d, execs) ==
    d.stop /\ ShouldComplete(ExecutionWithId(execs, d.id).duration, d.threshold)

RECURSIVE FinalOpsOfCompletions(_, _, _)
FinalOpsOfCompletions(ds, execs, k) ==
    IF k > Len(ds) THEN 0
    ELSE (IF ~ds[k].stop /\ ShouldComplete(ExecutionWithId(execs, ds[k].id).duration,
                                           ds[k].threshold)
          THEN ds[k].numOps ELSE 0)
         + FinalOpsOfCompletions(ds, execs, k + 1)

\* C10: an execution that meets the stop condition and the completion condition
\* in the same tick ends the tick stopped, with an alert for its agent, and the
\* tick registers final data operations only for the executions whose stop draw
\* failed.
C10_StopBeforeCompletion ==
    [][tickNo' # tickNo =>
          /\ \A k \in DOMAIN draws' :
                StopAndComplete(draws'[k], executions') =>
                   /\ ExecutionWithId(executions', draws'[k].id).status = "stopped"
                   /\ \E i \in DOMAIN alerts' :
                         /\ alerts'[i].id >= nextId
                         /\ alerts'[i].agentName =
                               ExecutionWithId(executions', draws'[k].id).agentName
          /\ Len(timers') = FinalOpsOfCompletions(draws', executions', 1)]_vars

\* the last tick drew a stop for an execution whose new duration exceeds the
\* drawn completion threshold
C10_Witness ==
    /\ tickNo >= 1
    /\ \E k \in DOMAIN draws :
          /\ StopAndComplete(draws[k], executions)
          /\ ExecutionWithId(executions, draws[k].id).status = "stopped"

\* C11: no data operation with operation DELETE is ever in the data-operation
\* ledger, initially or after any ticks and timeouts: every entry's operation is
\* SELECT, INSERT or UPDATE.
C11_NoDelete ==
    \A i \in DOMAIN dataOps :
        /\ dataOps[i].operation # "DELETE"
        /\ dataOps[i].operation \in {"SELECT", "INSERT", "UPDATE"}

\* a tick or a timeout has appended an UPDATE and an INSERT to the pre-populated ledger
C11_Witness ==
    /\ \E i \in DOMAIN dataOps : Fresh(dataOps[i]) /\ dataOps[i].operation = "UPDATE"
    /\ \E i \in DOMAIN dataOps : Fresh(dataOps[i]) /\ dataOps[i].operation = "INSERT"
    /\ \E i \in DOMAIN dataOps : ~Fresh(dataOps[i])

\* C12 as stated: between the end of one tick and the start of the next no
\* ledger changes.
C12_LedgersChangeOnlyInTick ==
    [][tickNo' = tickNo => UNCHANGED <<executions, dataOps, alerts>>]_vars

\* C12 as amended: outside a tick's processing the execution and alert ledgers
\* never change, and the data-operation ledger changes only by one deferred
\* final data operation of a completion being put at its head.
C12_OnlyDeferredDataOpsOutsideTick ==
    [][tickNo' = tickNo =>
          /\ UNCHANGED <<executions, alerts>>
          /\ dataOps' # dataOps =>
                /\ timers # <<>>
                /\ Len(timers') = Len(timers) - 1
                /\ dataOps'[1].id >= nextId
                /\ \E k \in DOMAIN timers : dataOps'[1].agent = timers[k].agent
                /\ SubSeq(dataOps', 2, Len(dataOps')) = Slice(dataOps, DataOpKeep)]_vars

\* the second final data operation of a completion has been appended 200 ms
\* after the tick that completed the execution
C12_Witness ==
    /\ tickNo >= 1
    /\ timers = <<>>
    /\ now = tickNo * TickPeriod + StaggerMs
    /\ dataOps # <<>> /\ Fresh(dataOps[1]) /\ dataOps[1].timestamp = now

(***************************************************************************)
(* Conversational agent protocol (src/unnamed/part_003, AgentChat).        *)
(*                                                                         *)
(* A string is the sequence of its characters, so that toLowerCase, trim   *)
(* and includes are computed as String.prototype computes them.            *)
(***************************************************************************)
UpperCase ==
    <<"A", "B", "C", "D", "E", "F", "G", "H", "I", "J", "K", "L", "M", "N",
      "O", "P", "Q", "R", "S", "T", "U", "V", "W", "X", "Y", "Z">>
LowerCase ==
    <<"a", "b", "c", "d", "e", "f", "g", "h", "i", "j", "k", "l", "m", "n",
      "o", "p", "q", "r", "s", "t", "u", "v", "w", "x", "y", "z">>

LowerCaseOf ==
    [c \in {UpperCase[i] : i \in DOMAIN UpperCase} |->
        LowerCase[CHOOSE i \in DOMAIN UpperCase : UpperCase[i] = c]]

ToLowerCaseChar(c) == IF c \in DOMAIN LowerCaseOf THEN LowerCaseOf[c] ELSE c

ToLowerCase(str) == [i \in DOMAIN str |-> ToLowerCaseChar(str[i])]

Trim(str) ==
    LET inked == {i \in DOMAIN str : str[i] # " "}
    IN  IF inked = {} THEN <<>>
        ELSE SubSeq(str, CHOOSE i \in inked : \A j \in inked : i <= j,
                         CHOOSE i \in inked : \A j \in inked : i >= j)

Includes(str, part) ==
    \E s \in {str}, p \in {part} :
        \E i \in 1..(Len(s) - Len(p) + 1) : SubSeq(s, i, i + Len(p) - 1) = p

\* The string literals of the classification (part_003 lines 111-119).
\* "market conditions"
StrMarketConditions ==
    <<"m", "a", "r", "k", "e", "t", " ", "c", "o", "n", "d", "i", "t", "i",
      "o", "n", "s">>
\* "how are market conditions affecting pricing?"
StrHowAreMarketConditions ==
    <<"h", "o", "w", " ", "a", "r", "e", " ", "m", "a", "r", "k", "e", "t",
      " ", "c", "o", "n", "d", "i", "t", "i", "o", "n", "s", " ", "a", "f",
      "f", "e", "c", "t", "i", "n", "g", " ", "p", "r", "i", "c", "i", "n",
      "g", "?">>
\* "market"
StrMarket ==
    <<"m", "a", "r", "k", "e", "t">>
\* "affecting"
StrAffecting ==
    <<"a", "f", "f", "e", "c", "t", "i", "n", "g">>
\* "pricing"
StrPricing ==
    <<"p", "r", "i", "c", "i", "n", "g">>
\* "optimize"
StrOptimize ==
    <<"o", "p", "t", "i", "m", "i", "z", "e">>
\* "can you optimize our pricing strategy"
StrCanYouOptimize ==
    <<"c", "a", "n", " ", "y", "o", "u", " ", "o", "p", "t", "i", "m", "i",
      "z", "e", " ", "o", "u", "r", " ", "p", "r", "i", "c", "i", "n", "g",
      " ", "s", "t", "r", "a", "t", "e", "g", "y">>
\* "pricing strategy"
StrPricingStrategy ==
    <<"p", "r", "i", "c", "i", "n", "g", " ", "s", "t", "r", "a", "t", "e",
      "g", "y">>

IsPricingMarketQuestion(agentType, currentMessage) ==
    /\ agentType = "PricingAgent"
    /\ \/ Includes(ToLowerCase(currentMessage), StrMarketConditions)
       \/ ToLowerCase(currentMessage) = StrHowAreMarketConditions
       \/ /\ Includes(ToLowerCase(currentMessage), StrMarket)
          /\ Includes(ToLowerCase(currentMessage), StrAffecting)
          /\ Includes(ToLowerCase(currentMessage), StrPricing)

\* the test of the agent type is missing
IsPricingOptimizationQuestion_AnyAgent(agentType, currentMessage) ==
    \/ /\ Includes(ToLowerCase(currentMessage), StrOptimize)
       /\ Includes(ToLowerCase(currentMessage), StrPricing)
    \/ Includes(ToLowerCase(currentMessage), StrCanYouOptimize)
    \/ Includes(ToLowerCase(currentMessage), StrPricingStrategy)

IsPricingOptimizationQuestion(agentType, currentMessage) ==
    /\ agentType = "PricingAgent"
    /\ \/ /\ Includes(ToLowerCase(currentMessage), StrOptimize)
          /\ Includes(ToLowerCase(currentMessage), StrPricing)
       \/ Includes(ToLowerCase(currentMessage), StrCanYouOptimize)
       \/ Includes(ToLowerCase(currentMessage), StrPricingStrategy)

\* What the user puts into the input: the two quick actions of the Pricing
\* agent and one of the Marketing agent (part_003 lines 693, 699, 725), and
\* typed text.
\* "How are market conditions affecting pricing?"
MsgMarket ==
    <<"H", "o", "w", " ", "a", "r", "e", " ", "m", "a", "r", "k", "e", "t",
      " ", "c", "o", "n", "d", "i", "t", "i", "o", "n", "s", " ", "a", "f",
      "f", "e", "c", "t", "i", "n", "g", " ", "p", "r", "i", "c", "i", "n",
      "g", "?">>
\* "Can you optimize our pricing strategy?"
MsgOptimize ==
    <<"C", "a", "n", " ", "y", "o", "u", " ", "o", "p", "t", "i", "m", "i",
      "z", "e", " ", "o", "u", "r", " ", "p", "r", "i", "c", "i", "n", "g",
      " ", "s", "t", "r", "a", "t", "e", "g", "y", "?">>
\* "Optimize our marketing campaigns"
MsgCampaigns ==
    <<"O", "p", "t", "i", "m", "i", "z", "e", " ", "o", "u", "r", " ", "m",
      "a", "r", "k", "e", "t", "i", "n", "g", " ", "c", "a", "m", "p", "a",
      "i", "g", "n", "s">>
\* "hello"
MsgHello ==
    <<"h", "e", "l", "l", "o">>
\* "  "
MsgBlank ==
    <<" ", " ">>

(***************************************************************************)
(* Responses.  An optional field of a JavaScript object is a sequence of   *)
(* no or one value; a response text is named by its place in the source.   *)
(* Confidence is in percent, a percentage in tenths.                       *)
(***************************************************************************)
\* The chats the exploration opens: two of the nine agent types.
AgentTypes == {"PricingAgent", "MarketingAgent"}

\* The keys of the keyword rules (part_003 lines 328-341, 382-399).
\* "price"
StrPrice ==
    <<"p", "r", "i", "c", "e">>
\* "profit"
StrProfit ==
    <<"p", "r", "o", "f", "i", "t">>
\* "campaign"
StrCampaign ==
    <<"c", "a", "m", "p", "a", "i", "g", "n">>
\* "audience"
StrAudience ==
    <<"a", "u", "d", "i", "e", "n", "c", "e">>
\* "marketing"
StrMarketing ==
    <<"m", "a", "r", "k", "e", "t", "i", "n", "g">>

Metadata(confidence, category, actions) ==
    [confidence |-> confidence, category |-> category, actions |-> actions,
     optimization_applied |-> <<>>, products_updated |-> <<>>,
     average_increase |-> <<>>, real_changes |-> <<>>]

Rule(key, content, confidence, category, actions) ==
    [key |-> key, content |-> content, metadata |-> Metadata(confidence, category, actions)]

\* The keys of the CustomerServiceAgent rules (part_003 lines 281-301).
\* "order"
StrOrder ==
    <<"o", "r", "d", "e", "r">>
\* "12345"
Str12345 ==
    <<"1", "2", "3", "4", "5">>
\* "67890"
Str67890 ==
    <<"6", "7", "8", "9", "0">>
\* "54321"
Str54321 ==
    <<"5", "4", "3", "2", "1">>
\* "return"
StrReturn ==
    <<"r", "e", "t", "u", "r", "n">>
\* "shipping"
StrShipping ==
    <<"s", "h", "i", "p", "p", "i", "n", "g">>

\* The rules of an agent type as the object literal declares them
\* (part_003 lines 279-458), the default left out.
Responses(type) ==
    IF type = "CustomerServiceAgent"
    THEN << Rule(StrOrder, "CustomerServiceAgent.order", 95, "order_inquiry",
                 <<"check_order_status", "provide_tracking">>),
            Rule(Str12345, "CustomerServiceAgent.12345", 98, "order_status_detailed",
                 <<"order_lookup", "priority_escalation", "compensation_applied">>),
            Rule(Str67890, "CustomerServiceAgent.67890", 97, "order_status_detailed",
                 <<"live_tracking", "delivery_notification", "signature_alert">>),
            Rule(Str54321, "CustomerServiceAgent.54321", 99, "order_status_detailed",
                 <<"issue_resolution", "upgrade_applied", "compensation_added">>),
            Rule(StrReturn, "CustomerServiceAgent.return", 94, "return_request",
                 <<"instant_label_generation", "fast_refund",
                   "personalized_recommendations">>),
            Rule(StrShipping, "CustomerServiceAgent.shipping", 91, "shipping_inquiry",
                 <<"real_time_tracking", "address_updates", "carrier_coordination">>) >>
    ELSE IF type = "PricingAgent"
    THEN << Rule(StrPrice, "PricingAgent.price", 93, "price_optimization",
                 <<"market_analysis", "competitor_tracking", "demand_forecasting">>),
            Rule(StrMarket, "PricingAgent.market", 94, "market_analysis",
                 <<"web_research", "competitor_analysis", "trend_monitoring",
                   "price_optimization">>),
            Rule(StrProfit, "PricingAgent.profit", 88, "profit_optimization",
                 <<"margin_analysis", "elasticity_calculation">>) >>
    ELSE << Rule(StrCampaign, "MarketingAgent.campaign", 92, "campaign_management",
                 <<"campaign_optimization", "roi_analysis">>),
            Rule(StrOptimize, "MarketingAgent.optimize", 94, "campaign_optimization",
                 <<"budget_reallocation", "performance_optimization", "roi_maximization">>),
            Rule(StrAudience, "MarketingAgent.audience", 89, "audience_targeting",
                 <<"segmentation", "personalization">>),
            Rule(StrMarketing, "MarketingAgent.marketing", 86, "marketing_automation",
                 <<"automation", "optimization">>) >>

DefaultResponse(type) ==
    IF type = "CustomerServiceAgent"
    THEN Rule(<<>>, "CustomerServiceAgent.default", 75, "general",
              <<"intelligent_routing", "context_preservation", "vip_escalation">>)
    ELSE IF type = "PricingAgent"
    THEN Rule(<<>>, "PricingAgent.default", 80, "pricing_strategy",
              <<"algorithm_analysis", "strategy_development">>)
    ELSE Rule(<<>>, "MarketingAgent.default", 80, "marketing_strategy",
              <<"campaign_creation", "performance_optimization">>)

(***************************************************************************)
(* Object.entries (part_003 line 463) yields the own properties in the     *)
(* order of OrdinaryOwnPropertyKeys: the keys that are array indices in    *)
(* ascending numeric order, then the other string keys in the order of     *)
(* their creation.                                                         *)
(***************************************************************************)
Digits == <<"0", "1", "2", "3", "4", "5", "6", "7", "8", "9">>

DigitOf == [c \in {Digits[i] : i \in DOMAIN Digits} |->
               (CHOOSE i \in DOMAIN Digits : Digits[i] = c) - 1]

\* the number a string of digits denotes
RECURSIVE ToNumber(_)
ToNumber(key) ==
    IF key = <<>> THEN 0
    ELSE 10 * ToNumber(SubSeq(key, 1, Len(key) - 1)) + DigitOf[key[Len(key)]]

MaxArrayIndexDigits == 9

\* a canonical numeric string below 2^32 - 1; the keys of the rules have no
\* more than nine digits
IsArrayIndex(key) ==
    /\ key # <<>>
    /\ Len(key) <= MaxArrayIndexDigits
    /\ \A i \in DOMAIN key : key[i] \in DOMAIN DigitOf
    /\ key[1] = "0" => Len(key) = 1

RECURSIVE AscendingKeys(_, _)
AscendingKeys(rules, S) ==
    IF S = {} THEN <<>>
    ELSE LET m == CHOOSE i \in S :
                      \A j \in S : ToNumber(rules[i].key) <= ToNumber(rules[j].key)
         IN  <<rules[m]>> \o AscendingKeys(rules, S \ {m})

\* the entries are yielded in the order of their declaration
ObjectEntries_DeclarationOrder(rules) == rules

ObjectEntries(rules) ==
    AscendingKeys(rules, {i \in DOMAIN rules : IsArrayIndex(rules[i].key)})
        \o SelectSeq(rules, LAMBDA rule : ~IsArrayIndex(rule.key))

\* The agent types whose rules are modelled.
RuleAgentTypes == {"CustomerServiceAgent", "PricingAgent", "MarketingAgent"}

\* Object.entries(agentResponses) of each agent type
AgentResponseEntries == [type \in RuleAgentTypes |-> ObjectEntries(Responses(type))]

\* for (const [key, response] of Object.entries(agentResponses)) ...
\* (part_003 lines 463-469), from entry i on
RECURSIVE BestMatch(_, _, _)
BestMatch(type, lowerMessage, i) ==
    IF i > Len(AgentResponseEntries[type]) THEN DefaultResponse(type)
    ELSE IF Includes(lowerMessage, AgentResponseEntries[type][i].key)
         THEN AgentResponseEntries[type][i]
    ELSE BestMatch(type, lowerMessage, i + 1)

GenerateAgentResponse(message, type) ==
    [content |-> BestMatch(type, ToLowerCase(message), 1).content,
     metadata |-> BestMatch(type, ToLowerCase(message), 1).metadata]

\* x || d on an optional number: undefined and 0 are falsy
OrElse(x, d) == IF x = <<>> \/ x[1] = 0 THEN d ELSE x[1]

\* data when the resolved value has no data property: {}
EmptyData == [total_products_updated |-> <<>>, average_increase_percent |-> <<>>]

\* (optimizationResult as any)?.data || {} (part_003 line 206)
DataOf(optimizationResult) ==
    IF optimizationResult.data = <<>> THEN EmptyData ELSE optimizationResult.data[1]

\* Number.prototype.toFixed(1) of a percentage given in hundredths: the
\* percentage in tenths, rounded
ToFixed1(x) == (x + 5) \div 10

\* the catch branch reports the optimization as applied
PricingOptimizationResponse_AppliedOnError(result) ==
    [content |-> "Pricing Optimization Complete",
     metadata |-> [confidence |-> 96, category |-> "pricing_optimization",
                   actions |-> <<"price_updates", "market_analysis", "profit_optimization">>,
                   optimization_applied |-> <<TRUE>>,
                   products_updated |-> <<5>>,
                   average_increase |-> <<32>>, real_changes |-> <<TRUE>>]]

\* The response of handlePricingOptimization after optimizePricing has
\* settled: result.ok says whether the await returned or threw.
PricingOptimizationResponse(result) ==
    IF result.ok
    THEN LET data == DataOf(result)
             changesCount == OrElse(data.total_products_updated, 5)
             \* undefined?.toFixed(1) || '3.2'; "0.0" is a non-empty string
             avgIncrease == IF data.average_increase_percent = <<>> THEN 32
                            ELSE ToFixed1(data.average_increase_percent[1])
         IN  [content |-> "Pricing Optimization Complete",
              metadata |-> [confidence |-> 96, category |-> "pricing_optimization",
                            actions |-> <<"price_updates", "market_analysis",
                                          "profit_optimization">>,
                            optimization_applied |-> <<TRUE>>,
                            products_updated |-> <<changesCount>>,
                            average_increase |-> <<avgIncrease>>,
                            real_changes |-> <<TRUE>>]]
    ELSE [content |-> "I encountered an issue while optimizing pricing",
          metadata |-> [confidence |-> 75, category |-> "pricing_analysis",
                        actions |-> <<"web_research", "market_analysis",
                                      "strategic_recommendations">>,
                        optimization_applied |-> <<FALSE>>,
                        products_updated |-> <<>>, average_increase |-> <<>>,
                        real_changes |-> <<>>]]

(***************************************************************************)
(* Timing (ms) and the exploration's draws.                                *)
(***************************************************************************)
MaxSends == 2      \* messages accepted by handleSendMessage in a behaviour
MaxMounts == 1     \* chats opened in a behaviour

OptimizationDelay == 2000
SearchDelay == 30000
ThinkDelay == 3000
DefaultDelayBase == 1500
DefaultDelaySpan == 2000
ApiTimeout == 10000

\* 1500 + Math.random() * 2000, as setTimeout truncates it: the two extremes
DefaultDelayDraws == {DefaultDelayBase, DefaultDelayBase + DefaultDelaySpan - 1}

\* How an optimizePricing request settles: a response, an error response,
\* or no response, which axios turns into an error at its timeout.  post
\* resolves to the body of the response (authService.ts lines 181-184): the
\* body holds the two numbers under a data property, or, as the interface of
\* the Pricing Service gives them, as its own properties.  The percentage is
\* in hundredths.
Resolved(latency, data, own) ==
    [ok |-> TRUE, latency |-> latency, data |-> data,
     total_products_updated |-> own.total_products_updated,
     average_increase_percent |-> own.average_increase_percent]

Rejected(latency) ==
    [ok |-> FALSE, latency |-> latency, data |-> <<>>,
     total_products_updated |-> <<>>, average_increase_percent |-> <<>>]

Payload(updated, percent) ==
    [total_products_updated |-> <<updated>>, average_increase_percent |-> <<percent>>]

ApiResults ==
    { Resolved(400, <<Payload(7, 254)>>, EmptyData),
      Resolved(400, <<Payload(0, 0)>>, EmptyData),
      Resolved(400, <<>>, Payload(7, 254)),
      Rejected(400),
      Rejected(ApiTimeout) }

TypedInputs == {MsgHello, MsgOptimize, MsgBlank}

QuickActions(agentType) ==
    IF agentType = "PricingAgent" THEN {MsgMarket, MsgOptimize} ELSE {MsgCampaigns}

WelcomeMessage(agentName, agentType, t) ==
    [id |-> "welcome", type |-> "agent", content |-> "welcome", timestamp |-> t,
     agentName |-> <<agentName>>, status |-> "completed", metadata |-> <<>>]

UserMessage(content, t) ==
    [id |-> t, type |-> "user", content |-> content, timestamp |-> t,
     agentName |-> <<>>, status |-> "sent", metadata |-> <<>>]

AgentMessage(agentResponse, agentName, t) ==
    [id |-> t + 1, type |-> "agent", content |-> agentResponse.content, timestamp |-> t,
     agentName |-> <<agentName>>, status |-> "completed",
     metadata |-> <<agentResponse.metadata>>]

\* The component instance of mount number m is still mounted.
Mounted(m) == selectedAgent # "null" /\ mountNo = m

\* disabled={isTyping} of the input, disabled={!inputMessage.trim() || isTyping}
\* of the send button (part_003 lines 636, 640)
InputEnabled(typing) == ~typing
\* the send button is disabled on empty input only
SendEnabled_IgnoresTyping(input, typing) == ~(Trim(input) = <<>>)
SendEnabled(input, typing) == ~(Trim(input) = <<>> \/ typing)

\* An entry of chatLog: a request sent to the Pricing Service or a call of
\* queryClient.invalidateQueries, made for request req of mount number mount.
LogEntry(kind, req, mount, key) ==
    [kind |-> kind, req |-> req, mount |-> mount, key |-> key, mounted |-> Mounted(mount)]

\* the market-conditions test comes first
PathOf_MarketFirst(agentType, currentMessage) ==
    IF IsPricingMarketQuestion(agentType, currentMessage) THEN "searching"
    ELSE IF IsPricingOptimizationQuestion(agentType, currentMessage) THEN "optimization"
    ELSE "default"

\* if (isPricingOptimizationQuestion) ... else if (isPricingMarketQuestion) ...
\* else ... (part_003 lines 120, 143, 171)
PathOf(agentType, currentMessage) ==
    IF IsPricingOptimizationQuestion(agentType, currentMessage) THEN "optimization"
    ELSE IF IsPricingMarketQuestion(agentType, currentMessage) THEN "searching"
    ELSE "default"

\* the first stage of the market-conditions path lasts 3 seconds, not 30
PathDelay_ShortSearch(path, randomDelay) ==
    IF path = "optimization" THEN OptimizationDelay
    ELSE IF path = "searching" THEN ThinkDelay
    ELSE randomDelay

PathDelay(path, randomDelay) ==
    IF path = "optimization" THEN OptimizationDelay
    ELSE IF path = "searching" THEN SearchDelay
    ELSE randomDelay

PathTypingMessage(path) ==
    IF path = "optimization" THEN "Optimizing pricing strategy..."
    ELSE IF path = "searching" THEN "Searching the web..."
    ELSE "Agent is thinking..."

(***************************************************************************)
(* handleSendMessage (part_003 lines 94-191), up to the registration of    *)
(* the timer.  randomDelay is the delay the default path draws.            *)
(***************************************************************************)
HandleSendMessage(randomDelay) ==
    IF Trim(inputMessage) = <<>>
    THEN UNCHANGED <<messages, inputMessage, isTyping, typingMessage, chatTimers, sendNo>>
    ELSE LET currentMessage == inputMessage
             path == PathOf(selectedAgent, currentMessage)
         IN  /\ messages' = Append(messages, UserMessage(inputMessage, now))
             /\ inputMessage' = <<>>
             /\ isTyping' = TRUE
             /\ typingMessage' = PathTypingMessage(path)
             /\ chatTimers' = chatTimers \cup
                    {[mount |-> mountNo, req |-> sendNo + 1, kind |-> path,
                      due |-> now + PathDelay(path, randomDelay),
                      message |-> currentMessage, agentType |-> selectedAgent,
                      agentName |-> selectedAgent]}
             /\ sendNo' = sendNo + 1

(***************************************************************************)
(* The user's actions on AdminAgents and on the chat.                      *)
(***************************************************************************)
\* setSelectedAgent(name) (AdminAgents.tsx line 306), the mount and its
\* welcome effect (part_003 lines 70-92)
OpenChat ==
    /\ selectedAgent = "null"
    /\ mountNo < MaxMounts
    /\ \E name \in AgentTypes :
        /\ selectedAgent' = name
        /\ messages' = <<WelcomeMessage(name, name, now)>>
    /\ mountNo' = mountNo + 1
    /\ inputMessage' = <<>>
    /\ isTyping' = FALSE
    /\ typingMessage' = "Agent is thinking..."
    /\ UNCHANGED <<chatTimers, apiCalls, sendNo, chatLog, now, dashVars, authVars>>

\* onClose (AdminAgents.tsx line 388): the component unmounts and its state
\* is dropped; AgentChat registers no cleanup for its timers.
CloseChat ==
    /\ selectedAgent # "null"
    /\ selectedAgent' = "null"
    /\ messages' = <<>>
    /\ inputMessage' = <<>>
    /\ isTyping' = FALSE
    /\ typingMessage' = "Agent is thinking..."
    /\ UNCHANGED <<mountNo, chatTimers, apiCalls, sendNo, chatLog, now, dashVars, authVars>>

\* onChange of the input (part_003 line 632)
TypeInput ==
    /\ selectedAgent # "null"
    /\ InputEnabled(isTyping)
    /\ \E text \in TypedInputs : inputMessage' = text
    /\ UNCHANGED <<selectedAgent, mountNo, messages, isTyping, typingMessage, chatTimers,
                   apiCalls, sendNo, chatLog, now, dashVars, authVars>>

\* a quick-action button (part_003 lines 657-735); the buttons are never disabled
QuickAction ==
    /\ selectedAgent # "null"
    /\ \E text \in QuickActions(selectedAgent) : inputMessage' = text
    /\ UNCHANGED <<selectedAgent, mountNo, messages, isTyping, typingMessage, chatTimers,
                   apiCalls, sendNo, chatLog, now, dashVars, authVars>>

\* onClick of the send button (part_003 lines 638-640)
ClickSend ==
    /\ selectedAgent # "null"
    /\ SendEnabled(inputMessage, isTyping)
    /\ sendNo < MaxSends
    /\ \E randomDelay \in DefaultDelayDraws : HandleSendMessage(randomDelay)
    /\ UNCHANGED <<selectedAgent, mountNo, apiCalls, chatLog, now, dashVars, authVars>>

\* onKeyPress of the input with Enter (part_003 lines 633, 636)
PressEnter ==
    /\ selectedAgent # "null"
    /\ InputEnabled(isTyping)
    /\ sendNo < MaxSends
    /\ \E randomDelay \in DefaultDelayDraws : HandleSendMessage(randomDelay)
    /\ UNCHANGED <<selectedAgent, mountNo, apiCalls, chatLog, now, dashVars, authVars>>

(***************************************************************************)
(* Timer callbacks and the settling of the Pricing Service call.  The      *)
(* earliest pending event runs next.  A state update of a component that   *)
(* has been unmounted is dropped by React; everything else a callback does *)
(* still happens.                                                          *)
(***************************************************************************)
\* only the products query is invalidated
InvalidateQueries_ProductsOnly(req, mount) ==
    << LogEntry("invalidateQueries", req, mount, "products") >>

\* queryClient.invalidateQueries for the two product queries (part_003 lines 202-203)
InvalidateQueries(req, mount) ==
    << LogEntry("invalidateQueries", req, mount, "products"),
       LogEntry("invalidateQueries", req, mount, "featured-products") >>

PendingDues == {tm.due : tm \in chatTimers} \cup {call.due : call \in apiCalls}

IsNextDue(due) == \A d \in PendingDues : due <= d

\* the response takes the place of the last message
AppendResponse_ReplaceLast(mount, agentResponse, agentName, t, resetTypingMessage) ==
    IF Mounted(mount)
    THEN /\ messages' = [messages EXCEPT ![Len(messages)] =
                            AgentMessage(agentResponse, agentName, t)]
         /\ isTyping' = FALSE
         /\ typingMessage' = IF resetTypingMessage THEN "Agent is thinking..."
                             ELSE typingMessage
    ELSE UNCHANGED <<messages, isTyping, typingMessage>>

\* setIsTyping(false) is missing
AppendResponse_StillTyping(mount, agentResponse, agentName, t, resetTypingMessage) ==
    IF Mounted(mount)
    THEN /\ messages' = Append(messages, AgentMessage(agentResponse, agentName, t))
         /\ UNCHANGED <<isTyping, typingMessage>>
    ELSE UNCHANGED <<messages, isTyping, typingMessage>>

\* setMessages(prev => [...prev, agentMessage]); setIsTyping(false);
\* setTypingMessage(...) where the path resets it
AppendResponse(mount, agentResponse, agentName, t, resetTypingMessage) ==
    IF Mounted(mount)
    THEN /\ messages' = Append(messages, AgentMessage(agentResponse, agentName, t))
         /\ isTyping' = FALSE
         /\ typingMessage' = IF resetTypingMessage THEN "Agent is thinking..."
                             ELSE typingMessage
    ELSE UNCHANGED <<messages, isTyping, typingMessage>>

ChatTimerFire ==
    /\ \E tm \in chatTimers :
        /\ IsNextDue(tm.due)
        /\ now' = tm.due
        /\ IF tm.kind = "optimization"
           THEN \* part_003 lines 126-128, 196-199: the request is sent
                /\ \E result \in ApiResults :
                      apiCalls' = apiCalls \cup
                          {[mount |-> tm.mount, req |-> tm.req, due |-> tm.due + result.latency,
                            result |-> result, message |-> tm.message,
                            agentType |-> tm.agentType, agentName |-> tm.agentName]}
                /\ chatTimers' = chatTimers \ {tm}
                /\ chatLog' = Append(chatLog,
                      LogEntry("optimizePricing", tm.req, tm.mount, ""))
                /\ UNCHANGED <<messages, isTyping, typingMessage>>
           ELSE IF tm.kind = "searching"
           THEN \* part_003 lines 149-153
                /\ typingMessage' = IF Mounted(tm.mount) THEN "Agent is thinking..."
                                    ELSE typingMessage
                /\ chatTimers' = (chatTimers \ {tm}) \cup
                      {[tm EXCEPT !.kind = "thinking", !.due = tm.due + ThinkDelay]}
                /\ UNCHANGED <<messages, isTyping, apiCalls, chatLog>>
           ELSE \* part_003 lines 153-169, 174-189
                /\ \E agentResponse \in {GenerateAgentResponse(tm.message, tm.agentType)} :
                      AppendResponse(tm.mount, agentResponse, tm.agentName, tm.due,
                                     tm.kind = "thinking")
                /\ chatTimers' = chatTimers \ {tm}
                /\ UNCHANGED <<apiCalls, chatLog>>
    /\ UNCHANGED <<selectedAgent, mountNo, inputMessage, sendNo, dashVars, authVars>>

\* optimizePricing returns or throws; handlePricingOptimization and the rest
\* of the timer callback run (part_003 lines 199-273, 130-142)
ApiCallSettle ==
    /\ \E call \in apiCalls :
        /\ IsNextDue(call.due)
        /\ now' = call.due
        /\ apiCalls' = apiCalls \ {call}
        /\ chatLog' = IF call.result.ok
                      THEN chatLog \o InvalidateQueries(call.req, call.mount)
                      ELSE chatLog
        /\ \E agentResponse \in {PricingOptimizationResponse(call.result)} :
              AppendResponse(call.mount, agentResponse, call.agentName, call.due, TRUE)
    /\ UNCHANGED <<selectedAgent, mountNo, inputMessage, chatTimers, sendNo, dashVars, authVars>>

InitChat ==
    /\ ChatUnmounted
    /\ executions = <<>>
    /\ dataOps = <<>>
    /\ alerts = <<>>
    /\ timers = <<>>
    /\ now = 0
    /\ tickNo = 0
    /\ nextId = 1
    /\ draws = <<>>
    /\ selectedAlert = <<>>
    /\ AuthCreated

NextChat ==
    \/ OpenChat \/ CloseChat \/ TypeInput \/ QuickAction \/ ClickSend \/ PressEnter
    \/ ChatTimerFire \/ ApiCallSettle

SpecChat == InitChat /\ [][NextChat]_vars

(***************************************************************************)
(* Properties of the chat.                                                 *)
(***************************************************************************)
\* the timers and calls whose response the mounted chat is waiting for
PendingTimers == {tm \in chatTimers : Mounted(tm.mount)}
PendingCalls == {call \in apiCalls : Mounted(call.mount)}
PendingCount == Cardinality(PendingTimers) + Cardinality(PendingCalls)

MessagesOfType(type) == {i \in DOMAIN messages : messages[i].type = type}

\* C13: a mounted chat has at most one response pending (one delay timer or
\* one backend call); exactly while one is pending the chat is typing, the
\* input and the send button are disabled, and every user message but the
\* pending one has been answered.
C13_AtMostOnePending ==
    selectedAgent # "null" =>
        /\ PendingCount <= 1
        /\ isTyping <=> PendingCount = 1
        /\ isTyping => /\ ~InputEnabled(isTyping)
                       /\ ~SendEnabled(inputMessage, isTyping)
        /\ Cardinality(MessagesOfType("user")) =
              Cardinality(MessagesOfType("agent")) - 1 + PendingCount

\* the second message of a chat is pending and the user has put text into the
\* input with a quick action
C13_Witness ==
    /\ selectedAgent # "null"
    /\ isTyping
    /\ PendingCount = 1
    /\ Trim(inputMessage) # <<>>
    /\ Cardinality(MessagesOfType("user")) = 2

(***************************************************************************)
(* handleSendMessage called by a caller that does not go through the       *)
(* disabled attribute of the controls: the function as it stands.          *)
(***************************************************************************)
InvokeSendMessage ==
    /\ selectedAgent # "null"
    /\ sendNo < MaxSends
    /\ \E randomDelay \in DefaultDelayDraws : HandleSendMessage(randomDelay)
    /\ UNCHANGED <<selectedAgent, mountNo, apiCalls, chatLog, now, dashVars, authVars>>

NextChatDirect == NextChat \/ InvokeSendMessage

SpecChatDirect == InitChat /\ [][NextChatDirect]_vars

\* C14: handleSendMessage rejects a call made while a response is pending:
\* with isTyping true and non-empty input it appends no message, starts no
\* timer and leaves the state of the chat unchanged.
C14_SendRejectedWhilePending ==
    [][(selectedAgent # "null" /\ isTyping /\ selectedAgent' = selectedAgent) =>
          /\ sendNo' = sendNo
          /\ inputMessage' # inputMessage => inputMessage' \in QuickActions(selectedAgent)
          /\ \A tm \in chatTimers' \ chatTimers :
                \E old \in chatTimers : old.req = tm.req
          /\ \A i \in DOMAIN messages' :
                i > Len(messages) => messages'[i].type = "agent"]_vars

\* the entries of the log made for request req
LogOf(kind, req) == {i \in DOMAIN chatLog : chatLog[i].kind = kind /\ chatLog[i].req = req}

\* C15: in a PricingAgent chat, "Can you optimize our pricing strategy?" takes
\* the optimization path; its timer sends exactly one optimizePricing request;
\* when the request succeeds the keys 'products' and 'featured-products' are
\* invalidated, in this order, after the request and before the response is
\* appended, and exactly one agent message is appended, of category
\* 'pricing_optimization' with 'price_updates' among its actions.
C15_OptimizationSuccess ==
    [][/\ (selectedAgent = "PricingAgent" /\ inputMessage = MsgOptimize /\ sendNo' # sendNo) =>
             /\ \E tm \in chatTimers' :
                   /\ chatTimers' = chatTimers \cup {tm}
                   /\ tm.kind = "optimization"
                   /\ tm.req = sendNo'
             /\ UNCHANGED <<apiCalls, chatLog>>
       /\ \A tm \in chatTimers \ chatTimers' :
             (tm.agentType = "PricingAgent" /\ tm.message = MsgOptimize) =>
                /\ Cardinality(apiCalls' \ apiCalls) = 1
                /\ \A call \in apiCalls' \ apiCalls : call.req = tm.req
                /\ LogOf("optimizePricing", tm.req) = {}
                /\ Len(chatLog') = Len(chatLog) + 1
                /\ chatLog'[Len(chatLog')].kind = "optimizePricing"
                /\ chatLog'[Len(chatLog')].req = tm.req
                /\ UNCHANGED messages
       /\ \A call \in apiCalls \ apiCalls' :
             (call.agentType = "PricingAgent" /\ call.message = MsgOptimize
                 /\ call.result.ok) =>
                /\ Cardinality(LogOf("optimizePricing", call.req)) = 1
                /\ Len(chatLog') = Len(chatLog) + 2
                /\ SubSeq(chatLog', 1, Len(chatLog)) = chatLog
                /\ chatLog'[Len(chatLog) + 1].kind = "invalidateQueries"
                /\ chatLog'[Len(chatLog) + 1].key = "products"
                /\ chatLog'[Len(chatLog) + 2].kind = "invalidateQueries"
                /\ chatLog'[Len(chatLog) + 2].key = "featured-products"
                /\ apiCalls' = apiCalls \ {call}
                /\ Mounted(call.mount) =>
                      /\ Len(messages') = Len(messages) + 1
                      /\ SubSeq(messages', 1, Len(messages)) = messages
                      /\ messages'[Len(messages')].type = "agent"
                      /\ messages'[Len(messages')].metadata[1].category =
                            "pricing_optimization"
                      /\ \E k \in DOMAIN messages'[Len(messages')].metadata[1].actions :
                            messages'[Len(messages')].metadata[1].actions[k] = "price_updates"
                      /\ ~isTyping']_vars

\* the chat shows the response to the quick action after a successful request
C15_Witness ==
    /\ selectedAgent = "PricingAgent"
    /\ Len(messages) = 3
    /\ messages[2].content = MsgOptimize
    /\ messages[3].metadata[1].category = "pricing_optimization"
    /\ Len(chatLog) = 3
    /\ chatLog[1].kind = "optimizePricing"
    /\ chatLog[3].key = "featured-products"
    /\ ~isTyping

\* C16: when the optimizePricing request fails, no second request is made, no
\* cache key is invalidated, exactly one agent message is appended, degraded
\* (category 'pricing_analysis', optimization_applied false, no 'price_updates'
\* action), and the chat is idle again; cache keys are invalidated only when a
\* request succeeds.
C16_OptimizationFailure ==
    [][/\ \A call \in apiCalls \ apiCalls' :
             ~call.result.ok =>
                /\ Cardinality(LogOf("optimizePricing", call.req)) = 1
                /\ LogOf("invalidateQueries", call.req) = {}
                /\ chatLog' = chatLog
                /\ apiCalls' = apiCalls \ {call}
                /\ chatTimers' = chatTimers
                /\ Mounted(call.mount) =>
                      /\ Len(messages') = Len(messages) + 1
                      /\ SubSeq(messages', 1, Len(messages)) = messages
                      /\ messages'[Len(messages')].type = "agent"
                      /\ messages'[Len(messages')].metadata[1].category = "pricing_analysis"
                      /\ messages'[Len(messages')].metadata[1].optimization_applied = <<FALSE>>
                      /\ \A k \in DOMAIN messages'[Len(messages')].metadata[1].actions :
                            messages'[Len(messages')].metadata[1].actions[k] # "price_updates"
                      /\ ~isTyping'
                      /\ PendingCount' = 0
       /\ \A i \in DOMAIN chatLog' :
             (i > Len(chatLog) /\ chatLog'[i].kind = "invalidateQueries") =>
                \E call \in apiCalls \ apiCalls' :
                    call.result.ok /\ call.req = chatLog'[i].req]_vars

\* the chat shows the degraded response after the request ran into the
\* timeout of the client
C16_Witness ==
    /\ selectedAgent = "PricingAgent"
    /\ Len(messages) = 3
    /\ messages[3].metadata[1].category = "pricing_analysis"
    /\ messages[3].timestamp - messages[2].timestamp = OptimizationDelay + ApiTimeout
    /\ Len(chatLog) = 1
    /\ chatLog[1].kind = "optimizePricing"
    /\ ~isTyping

\* C17: closing a chat during a delay stage cancels its pending timer, so no
\* response computation runs afterwards: every request to the Pricing Service
\* and every cache invalidation is made for a chat that is mounted at that
\* moment.
C17_CloseCancelsTimer ==
    \A i \in DOMAIN chatLog : chatLog[i].mounted

\* a message the Pricing agent's chat handles on the optimization path
OptimizationRequest(agentType, message) ==
    /\ agentType = "PricingAgent"
    /\ IsPricingOptimizationQuestion("PricingAgent", message)

\* C18: the Pricing Service is called only on the optimization path.  A message
\* gets an optimization timer exactly if it is sent in a PricingAgent chat and
\* classified as optimization; such a timer sends exactly one request; every
\* other timer (other agent types, the market-conditions and default paths)
\* sends none and invalidates nothing; cache keys are invalidated only when
\* such a request settles.
C18_CallOnlyForOptimization ==
    [][/\ sendNo' # sendNo =>
             /\ UNCHANGED <<apiCalls, chatLog>>
             /\ \A tm \in chatTimers' \ chatTimers :
                   tm.kind = "optimization" <=>
                       OptimizationRequest(selectedAgent, inputMessage)
       /\ \A tm \in chatTimers \ chatTimers' :
             IF OptimizationRequest(tm.agentType, tm.message)
             THEN /\ Cardinality(apiCalls' \ apiCalls) = 1
                  /\ Len(chatLog') = Len(chatLog) + 1
                  /\ chatLog'[Len(chatLog')].kind = "optimizePricing"
                  /\ chatLog'[Len(chatLog')].req = tm.req
                  /\ LogOf("optimizePricing", tm.req) = {}
             ELSE UNCHANGED <<apiCalls, chatLog>>
       /\ \A call \in apiCalls' \ apiCalls :
             OptimizationRequest(call.agentType, call.message)
       /\ \A call \in apiCalls \ apiCalls' :
             /\ OptimizationRequest(call.agentType, call.message)
             /\ LogOf("optimizePricing", call.req)' = LogOf("optimizePricing", call.req)
       /\ (chatTimers \ chatTimers' = {} /\ apiCalls \ apiCalls' = {}) =>
             UNCHANGED <<apiCalls, chatLog>>]_vars

\* a MarketingAgent chat has answered "Can you optimize our pricing strategy?"
\* from its keyword rules, and nothing was sent to the Pricing Service
C18_Witness ==
    /\ selectedAgent = "MarketingAgent"
    /\ Len(messages) = 3
    /\ messages[2].content = MsgOptimize
    /\ messages[3].metadata[1].category = "campaign_optimization"
    /\ chatLog = <<>>
    /\ apiCalls = {}

(***************************************************************************)
(* The event loop runs a timer callback once its delay has elapsed, and an *)
(* optimizePricing request settles: by a response, or by the timeout of    *)
(* the axios instance (authService.ts line 135).                           *)
(***************************************************************************)
FairSpecChat == SpecChat /\ WF_vars(ChatTimerFire) /\ WF_vars(ApiCallSettle)

\* the mounted chat waits for the response to request q
Waiting(q) ==
    \/ \E tm \in PendingTimers : tm.req = q
    \/ \E call \in PendingCalls : call.req = q

\* the mounted chat is idle and every user message in it has its response
Answered ==
    /\ selectedAgent # "null"
    /\ ~isTyping
    /\ PendingCount = 0
    /\ messages[Len(messages)].type = "agent"
    /\ Cardinality(MessagesOfType("user")) = Cardinality(MessagesOfType("agent")) - 1

\* C19: every accepted user message is eventually followed by exactly one agent
\* response, with the chat idle again, on the default, market-conditions and
\* optimization paths, whether the request to the Pricing Service succeeds,
\* fails or gets no response; unless the chat is closed first.
C19_EveryMessageAnswered ==
    \A q \in 1..MaxSends : Waiting(q) ~> (Answered \/ selectedAgent = "null")

\* a PricingAgent chat is idle after two answers: the degraded one of a request
\* that got no response, 10000 ms after the 2000 ms delay, and one after the
\* two stages of the market-conditions path
C19_Witness ==
    /\ selectedAgent = "PricingAgent"
    /\ Answered
    /\ Len(messages) = 5
    /\ messages[3].metadata[1].optimization_applied = <<FALSE>>
    /\ messages[3].timestamp = messages[2].timestamp + OptimizationDelay + ApiTimeout
    /\ messages[4].content = MsgMarket
    /\ messages[5].timestamp = messages[4].timestamp + SearchDelay + ThinkDelay

\* the user messages of the mounted chat that have their response
AnsweredAt == {i \in DOMAIN messages : messages[i].type = "user" /\ i < Len(messages)}

\* the time from user message i to its response
Latency(i) == messages[i + 1].timestamp - messages[i].timestamp

\* C20: in a PricingAgent chat the response to "How are market conditions
\* affecting pricing?" comes after a total delay (both stages) of at least 5
\* times the delay of any message on the default path, and a chat that has
\* sent only market-conditions and default messages has sent nothing to the
\* Pricing Service.
C20_MarketDelay ==
    selectedAgent = "PricingAgent" =>
        /\ \A i \in AnsweredAt :
              messages[i].content = MsgMarket =>
                 /\ Latency(i) = SearchDelay + ThinkDelay
                 /\ \A d \in DefaultDelayDraws : Latency(i) >= 5 * d
                 /\ \A j \in AnsweredAt :
                       PathOf(selectedAgent, messages[j].content) = "default" =>
                          Latency(i) >= 5 * Latency(j)
        /\ (/\ Cardinality(MessagesOfType("user")) = sendNo
            /\ \A i \in MessagesOfType("user") :
                  ~OptimizationRequest(selectedAgent, messages[i].content)) =>
              chatLog = <<>> /\ apiCalls = {}

\* a PricingAgent chat has answered the market-conditions quick action and a
\* default-path message that drew the longest delay
C20_Witness ==
    /\ selectedAgent = "PricingAgent"
    /\ Len(messages) = 5
    /\ \E i, j \in AnsweredAt :
          /\ messages[i].content = MsgMarket
          /\ PathOf(selectedAgent, messages[j].content) = "default"
          /\ Latency(j) = DefaultDelayBase + DefaultDelaySpan - 1
    /\ chatLog = <<>>

(***************************************************************************)
(* One message in a chat that is open with typed text: the text and the    *)
(* agent type are drawn, then the message is sent and answered.            *)
(***************************************************************************)
\* "I need help with my order status" (quick action, part_003 line 661)
MsgOrderStatus ==
    <<"I", " ", "n", "e", "e", "d", " ", "h", "e", "l", "p", " ", "w", "i",
      "t", "h", " ", "m", "y", " ", "o", "r", "d", "e", "r", " ", "s", "t",
      "a", "t", "u", "s">>
\* "How do I return an item?" (quick action, part_003 line 667)
MsgReturnItem ==
    <<"H", "o", "w", " ", "d", "o", " ", "I", " ", "r", "e", "t", "u", "r",
      "n", " ", "a", "n", " ", "i", "t", "e", "m", "?">>

Join(a, b) == a \o <<" ">> \o b

ClassifyWords ==
    {StrOrder, Str12345, Str67890, Str54321, StrReturn, StrShipping,
     StrPrice, StrMarket, StrProfit, StrOptimize, StrPricingStrategy,
     StrMarketConditions, StrCampaign, StrAudience, StrMarketing, MsgHello}

ClassifyInputs ==
    ClassifyWords \cup {Join(a, b) : a, b \in ClassifyWords}
        \cup {MsgOrderStatus, MsgReturnItem, MsgMarket, MsgOptimize, MsgCampaigns}

InitClassify ==
    /\ \E name \in RuleAgentTypes, text \in ClassifyInputs :
        /\ selectedAgent = name
        /\ messages = <<WelcomeMessage(name, name, 0)>>
        /\ inputMessage = text
    /\ mountNo = 1
    /\ isTyping = FALSE
    /\ typingMessage = "Agent is thinking..."
    /\ chatTimers = {}
    /\ apiCalls = {}
    /\ sendNo = 0
    /\ chatLog = <<>>
    /\ executions = <<>>
    /\ dataOps = <<>>
    /\ alerts = <<>>
    /\ timers = <<>>
    /\ now = 0
    /\ tickNo = 0
    /\ nextId = 1
    /\ draws = <<>>
    /\ selectedAlert = <<>>
    /\ AuthCreated

NextClassify == ClickSend \/ PressEnter \/ ChatTimerFire \/ ApiCallSettle

SpecClassify == InitClassify /\ [][NextClassify]_vars

\* the rule of an agent type declared under a key
RuleOf(type, key) ==
    Responses(type)[CHOOSE i \in DOMAIN Responses(type) : Responses(type)[i].key = key]

\* the response of the first key of order that the message includes
FirstMatch(type, order, lowerMessage) ==
    LET hits == {k \in DOMAIN order : Includes(lowerMessage, order[k])}
    IN  IF hits = {} THEN DefaultResponse(type)
        ELSE RuleOf(type, order[CHOOSE k \in hits : \A h \in hits : k <= h])

\* the user messages that generateAgentResponse has answered
Classified ==
    {i \in DOMAIN messages :
        /\ messages[i].type = "user"
        /\ i < Len(messages)
        /\ PathOf(selectedAgent, messages[i].content) # "optimization"}

AnsweredWith(i, rule) ==
    /\ messages[i + 1].type = "agent"
    /\ messages[i + 1].content = rule.content
    /\ messages[i + 1].metadata = <<rule.metadata>>

\* the order of the keys in the object literal
DeclarationOrder(type) ==
    IF type = "CustomerServiceAgent"
    THEN <<StrOrder, Str12345, Str67890, Str54321, StrReturn, StrShipping>>
    ELSE IF type = "PricingAgent" THEN <<StrPrice, StrMarket, StrProfit>>
    ELSE <<StrCampaign, StrOptimize, StrAudience, StrMarketing>>

\* the integer keys in ascending order, then the others as declared
EnumerationOrder(type) ==
    IF type = "CustomerServiceAgent"
    THEN <<Str12345, Str54321, Str67890, StrOrder, StrReturn, StrShipping>>
    ELSE DeclarationOrder(type)

\* C21 as stated: classification answers with the first rule, in the order
\* the rules are declared (for CustomerServiceAgent order, 12345, 67890,
\* 54321, return, shipping), whose keyword the lower-cased message includes,
\* and with the default response when none matches.
C21_FirstDeclaredRuleWins ==
    \A i \in Classified :
        AnsweredWith(i, FirstMatch(selectedAgent, DeclarationOrder(selectedAgent),
                                   ToLowerCase(messages[i].content)))

\* C21 amended: classification answers with the first rule, in the order
\* Object.entries enumerates the rules (integer keys ascending, then the
\* other keys as declared: for CustomerServiceAgent 12345, 54321, 67890,
\* order, return, shipping), whose keyword the lower-cased message includes,
\* and with the default response when none matches.
C21_FirstEnumeratedRuleWins ==
    \A i \in Classified :
        AnsweredWith(i, FirstMatch(selectedAgent, EnumerationOrder(selectedAgent),
                                   ToLowerCase(messages[i].content)))

\* "order 12345" sent to the CustomerServiceAgent is answered with the
\* response of the rule 12345
C21_Witness ==
    /\ selectedAgent = "CustomerServiceAgent"
    /\ Len(messages) = 3
    /\ messages[2].content = Join(StrOrder, Str12345)
    /\ messages[3].content = "CustomerServiceAgent.12345"

\* the welcome message, then user and agent messages in turn
WelcomeThenAlternating(msgs) ==
    /\ msgs # <<>>
    /\ msgs[1].type = "agent" /\ msgs[1].content = "welcome" /\ msgs[1].metadata = <<>>
    /\ \A i \in 2..Len(msgs) :
          /\ msgs[i].type = IF i % 2 = 0 THEN "user" ELSE "agent"
          \* a response carries the metadata of its rule, the welcome message none
          /\ msgs[i].type = "agent" => msgs[i].metadata # <<>>

IsPrefix(s, t) == Len(s) <= Len(t) /\ SubSeq(t, 1, Len(s)) = s

\* C22: the message list of a chat session starts with exactly one welcome
\* agent message; while the session lasts a step only appends to it, leaving
\* every earlier message as it was; after the welcome message user and agent
\* messages strictly alternate.
C22_AppendOnlyAlternating ==
    [][/\ selectedAgent' # "null" => WelcomeThenAlternating(messages')
       /\ (selectedAgent # "null" /\ selectedAgent' # "null") =>
             /\ IsPrefix(messages, messages')
             /\ Len(messages') <= Len(messages) + 1]_vars

\* two messages have been sent and answered in one session
C22_Witness ==
    /\ selectedAgent # "null"
    /\ Len(messages) = 5
    /\ messages[4].type = "user"
    /\ messages[5].type = "agent"

(***************************************************************************)
(* Further properties of the ledgers.                                      *)
(***************************************************************************)
\* the keys of a list are non-increasing from its head
MostRecentFirst(s) ==
    \A i \in 1..(Len(s) - 1) : SortKey(s[i]) >= SortKey(s[i + 1])

\* C23: in every reachable state each ledger is ordered most-recent-first:
\* executions by startTime, data operations and alerts by timestamp, are
\* non-increasing from the head of the list.
C23_MostRecentFirst ==
    /\ MostRecentFirst(executions)
    /\ MostRecentFirst(dataOps)
    /\ MostRecentFirst(alerts)

\* a tick has spawned an execution, and a deferred data operation has been
\* put in front of the data operation of a tick
C23_Witness ==
    /\ Len(executions) > 1 /\ Fresh(executions[1])
    /\ Len(dataOps) > 1 /\ Fresh(dataOps[1]) /\ Fresh(dataOps[2])
    /\ dataOps[1].timestamp = TickPeriod + StaggerMs
    /\ dataOps[2].timestamp = TickPeriod

\* The timeouts of the completions run: the event loop calls a callback
\* whose delay has passed.
FairSpecSteady == SpecSteady /\ WF_vars(FireTimer)

\* the executions a tick has taken from running to completed, as positions
\* of the new ledger
CompletedInStep ==
    {j \in DOMAIN executions' :
        /\ j > SpawnedInStep
        /\ executions[j - SpawnedInStep].status = "running"
        /\ executions'[j].status = "completed"}

\* the data operations a step has put into the ledger
AppendedInStep == {i \in DOMAIN dataOps' : dataOps'[i].id >= nextId}

\* A tick registers one or two final data operations for the agent of each
\* execution it completes and none for any other agent.
RegistersFinalOps ==
    \A a \in AgentNames :
        LET completions == Cardinality({j \in CompletedInStep : executions'[j].agentName = a})
            registered == Cardinality({k \in DOMAIN timers' : timers'[k].agent = a})
        IN  completions <= registered /\ registered <= 2 * completions

\* A timeout appends one data operation, for the agent it was registered
\* for, which is the agent of an execution completed by the last tick.
AppendsFinalOp ==
    /\ Cardinality(AppendedInStep) = 1
    /\ \E k \in DOMAIN timers :
          /\ timers' = RemoveAt(timers, k)
          /\ dataOps'[1].id >= nextId
          /\ dataOps'[1].agent = timers[k].agent
    /\ \E j \in DOMAIN executions :
          /\ executions[j].status = "completed"
          /\ executions[j].agentName = dataOps'[1].agent
          /\ \E k \in DOMAIN draws : draws[k].id = executions[j].id

\* C24 as stated: every transition of an execution to completed is followed
\* by the append of one or two data operations of that execution's agent,
\* and every data operation appended by the scheduler carries the agentName
\* of an execution that was running at the start of the tick that produced it.
C24_OpsOfRunningAtTickStart ==
    /\ [][/\ tickNo' # tickNo =>
                /\ RegistersFinalOps
                /\ \A i \in AppendedInStep :
                      \E j \in RunningIdx(executions) :
                          executions[j].agentName = dataOps'[i].agent
          /\ (tickNo' = tickNo /\ dataOps' # dataOps) => AppendsFinalOp]_vars
    /\ (timers # <<>>) ~> (timers = <<>>)

\* C24 amended: every transition of an execution to completed is followed by
\* the append of one or two data operations of that execution's agent, and
\* every data operation appended by the scheduler carries the agentName of
\* an execution that was running when the update step of the tick that
\* produced it ran: running at the start of the tick, or spawned by the tick.
C24_OpsOfRunningAtUpdate ==
    /\ [][/\ tickNo' # tickNo =>
                /\ RegistersFinalOps
                /\ \A i \in AppendedInStep :
                      \/ \E j \in RunningIdx(executions) :
                            executions[j].agentName = dataOps'[i].agent
                      \/ /\ SpawnedInStep = 1
                         /\ executions'[1].agentName = dataOps'[i].agent
          /\ (tickNo' = tickNo /\ dataOps' # dataOps) => AppendsFinalOp]_vars
    /\ (timers # <<>>) ~> (timers = <<>>)

\* the first tick has spawned an execution whose agent no execution running
\* before had and has emitted a data operation for it, and it has completed
\* an execution whose final data operations have been appended
C24_Witness ==
    /\ tickNo = 1
    /\ timers = <<>>
    /\ Fresh(executions[1])
    /\ \A k \in DOMAIN draws :
          draws[k].id # executions[1].id =>
              ExecutionWithId(executions, draws[k].id).agentName # executions[1].agentName
    /\ \E i \in DOMAIN dataOps :
          /\ Fresh(dataOps[i])
          /\ dataOps[i].agent = executions[1].agentName
    /\ \E j \in DOMAIN executions :
          /\ executions[j].status = "completed"
          /\ \E k \in DOMAIN draws : draws[k].id = executions[j].id
          /\ Fresh(dataOps[1])
          /\ dataOps[1].agent = executions[j].agentName

\* the two numbers of the body optimizePricing has resolved to
Returned(result) ==
    IF result.data # <<>> THEN result.data[1]
    ELSE [total_products_updated |-> result.total_products_updated,
          average_increase_percent |-> result.average_increase_percent]

\* C25: the success response of a pricing optimization reports the values
\* the Pricing Service returned: metadata.products_updated is the returned
\* total_products_updated, also when it is 0, and metadata.average_increase
\* is the returned average_increase_percent to one decimal.
C25_ReportsReturnedValues ==
    [][\A call \in apiCalls \ apiCalls' :
          (call.result.ok /\ Mounted(call.mount)) =>
              /\ Len(messages') = Len(messages) + 1
              /\ messages'[Len(messages')].metadata[1].products_updated =
                    Returned(call.result).total_products_updated
              /\ messages'[Len(messages')].metadata[1].average_increase =
                    <<ToFixed1(Returned(call.result).average_increase_percent[1])>>]_vars

\* C26: a running execution never has a duration of 15 or more at the end
\* of a tick, so an execution spawned by the scheduler, which every tick
\* advances by 2, is terminal at the latest on its 8th tick; and no execution
\* is completed by a tick at a resulting duration of 3 or less.
C26_BoundedTermination ==
    [][tickNo' # tickNo =>
          /\ \A j \in DOMAIN executions' :
                executions'[j].status = "running" =>
                    /\ executions'[j].duration < 15
                    /\ executions'[j].duration % 2 = 0 => executions'[j].duration <= 2 * 7
          /\ \A j \in CompletedInStep : executions'[j].duration > 3]_vars

\* a tick has completed an execution on its 8th tick, at duration 16, and
\* has left another running at duration 14, after its 7th
C26_Witness ==
    /\ tickNo >= 1
    /\ \E j \in DOMAIN executions :
          /\ executions[j].status = "completed"
          /\ executions[j].duration = 16
          /\ \E k \in DOMAIN draws : draws[k].id = executions[j].id
    /\ \E j \in DOMAIN executions :
          /\ executions[j].status = "running"
          /\ executions[j].duration = 14

(***************************************************************************)
(* The dashboard with its ledgers at capacity, the running executions      *)
(* recently spawned or long-running.                                       *)
(***************************************************************************)
InitCapacity == InitSteady \/ InitAged

SpecCapacity == InitCapacity /\ [][Next]_vars

\* the executions a step removes from the ledger, as positions of the old one
EvictedInStep ==
    {j \in DOMAIN executions :
        \A k \in DOMAIN executions' : executions'[k].id # executions[j].id}

\* C27: capacity eviction from the execution ledger never removes a running
\* execution: every evicted execution is completed or stopped.  A running
\* execution is never near the tail: it gains 2 of at most 16 seconds for
\* every place it can move back, and starts at place 27 or before.
C27_EvictsOnlyTerminal ==
    [][/\ \A j \in EvictedInStep : executions[j].status \in {"completed", "stopped"}
       /\ \A j \in DOMAIN executions :
             executions[j].status = "running" =>
                 2 * j + (16 - executions[j].duration) <= 2 * 27 + 16
       /\ \A j \in DOMAIN executions' :
             executions'[j].status = "running" =>
                 2 * j + (16 - executions'[j].duration) <= 2 * 27 + 16]_vars

\* a spawn at capacity has evicted the oldest execution
C27_Witness ==
    /\ Len(executions) = 50
    /\ Fresh(executions[1])
    /\ \A j \in DOMAIN executions : executions[j].id # -50

(***************************************************************************)
(* The alert detail of the dashboard (part_002 lines 75, 407, 573-577,     *)
(* 664-790), and the dashboard and a chat side by side.                    *)
(***************************************************************************)
RecentAlertCount == 5

\* alerts.slice(0, 5)
RecentAlerts == Slice(alerts, RecentAlertCount)

\* onClick={() => setSelectedAlert(alert)} (line 576)
SelectAlert ==
    /\ \E i \in DOMAIN RecentAlerts : selectedAlert' = <<RecentAlerts[i]>>
    /\ UNCHANGED <<executions, dataOps, alerts, timers, tickNo, nextId, draws, now, chatVars, authVars>>

\* closing the detail also takes the alert out of the ledger
DismissAlert_Removing ==
    /\ selectedAlert # <<>>
    /\ selectedAlert' = <<>>
    /\ alerts' = SelectSeq(alerts, LAMBDA alert : alert # selectedAlert[1])
    /\ UNCHANGED <<executions, dataOps, timers, tickNo, nextId, draws, now, chatVars, authVars>>

\* onClick={() => setSelectedAlert(null)} (lines 686, 778)
DismissAlert ==
    /\ selectedAlert # <<>>
    /\ selectedAlert' = <<>>
    /\ UNCHANGED <<executions, dataOps, alerts, timers, tickNo, nextId, draws, now, chatVars, authVars>>

\* The dashboard as constructed, with the chat of another page open on the side:
\* the constructor's greatest ledgers, one running execution that is a second
\* old, and a typed message that asks for a pricing optimization.  The variable
\* now is the time of the last callback of either page; the callbacks of the two
\* pages are taken in any order.
InitPages ==
    /\ executions = InitialExecutions(<<<<AgentAt(2), InitRunningDurations[2]>>>>,
                                      MaxCompleted, MaxStopped, 1)
    /\ dataOps = InitialDataOps(MaxDataOps, 1)
    /\ alerts = InitialAlerts(MaxAlerts, 1)
    /\ timers = <<>>
    /\ now = 0
    /\ tickNo = 0
    /\ nextId = 1
    /\ draws = <<>>
    /\ selectedAlert = <<>>
    /\ AuthCreated
    /\ \E text \in {MsgOptimize} :
        /\ selectedAgent = "PricingAgent"
        /\ messages = <<WelcomeMessage("PricingAgent", "PricingAgent", 0)>>
        /\ inputMessage = text
    /\ mountNo = 1
    /\ isTyping = FALSE
    /\ typingMessage = "Agent is thinking..."
    /\ chatTimers = {}
    /\ apiCalls = {}
    /\ sendNo = 0
    /\ chatLog = <<>>

\* ticks of the dashboard while the chat is followed
PagesTicks == 1

PagesTick == tickNo < PagesTicks /\ Tick

\* no execution completes in these ticks (the running one is a second old), so
\* no timeout of a completion is ever pending
NextPages ==
    \/ PagesTick
    \/ SelectAlert \/ DismissAlert
    \/ ClickSend \/ ChatTimerFire \/ ApiCallSettle \/ CloseChat

SpecPages == InitPages /\ [][NextPages]_vars

\* a step of the chat (a message sent, a delay elapsed, a call settled, a
\* session closed) and a step of the alert detail
ChatStep == chatVars' # chatVars
AlertDetailStep == selectedAlert' # selectedAlert

\* C28: sending a message, receiving a response (the pricing-optimization call
\* included), closing a session, and selecting or dismissing an alert leave the
\* executions, the data operations and the alerts as they are.
C28_LedgersUnchanged ==
    [][(ChatStep \/ AlertDetailStep) => UNCHANGED <<executions, dataOps, alerts>>]_vars

\* the dashboard has ticked, an alert of the list has been selected, and the chat
\* has answered after its pricing-optimization call and has been closed
C28_Witness ==
    /\ tickNo > 0
    /\ selectedAlert # <<>>
    /\ \E i \in DOMAIN chatLog : chatLog[i].kind = "optimizePricing"
    /\ apiCalls = {}
    /\ chatTimers = {}
    /\ selectedAgent = "null"

\* a message that asks for an optimization and about the market conditions
SatisfiesBoth(agentType, currentMessage) ==
    /\ IsPricingOptimizationQuestion(agentType, currentMessage)
    /\ IsPricingMarketQuestion(agentType, currentMessage)

OptimizationCalls ==
    Cardinality({i \in DOMAIN chatLog : chatLog[i].kind = "optimizePricing"})

\* C29: in a PricingAgent session a message that satisfies the optimization
\* predicate and the market-conditions predicate takes the optimization path
\* only: the send registers one timer of the short optimization delay, the
\* Pricing Service is called once, and there is no 30-second research stage.
C29_OptimizationPathOnly ==
    /\ [][(sendNo' # sendNo /\ SatisfiesBoth(selectedAgent, inputMessage)) =>
            /\ typingMessage' = "Optimizing pricing strategy..."
            /\ Cardinality(chatTimers' \ chatTimers) = 1
            /\ \A tm \in chatTimers' \ chatTimers :
                  /\ tm.kind = "optimization"
                  /\ tm.due = now + OptimizationDelay
                  /\ tm.due < now + SearchDelay]_vars
    /\ []((Len(messages) >= 2 /\ SatisfiesBoth(selectedAgent, messages[2].content)) =>
            /\ \A tm \in chatTimers : tm.kind = "optimization"
            /\ typingMessage # "Searching the web..."
            /\ OptimizationCalls <= 1
            /\ (chatTimers = {}) => OptimizationCalls = 1
            /\ Len(messages) >= 3 => (OptimizationCalls = 1 /\ apiCalls = {}))

\* the answer to a message with "pricing strategy" and "market conditions"
C29_Witness ==
    /\ Len(messages) = 3
    /\ selectedAgent = "PricingAgent"
    /\ Includes(ToLowerCase(messages[2].content), StrPricingStrategy)
    /\ Includes(ToLowerCase(messages[2].content), StrMarketConditions)
    /\ messages[3].type = "agent"
    /\ OptimizationCalls = 1

(***************************************************************************)
(* The login of the auth store (authStore.ts lines 33-49), AuthService     *)
(* (authService.ts lines 29-56) and the response interceptor of ApiService *)
(* (authService.ts lines 155-170).                                         *)
(***************************************************************************)
MaxLogins == 3     \* calls of login in a behaviour

\* the tokens a login response carries, and a response without access_token
Tokens == {"t1", "t2"}
NoAccessToken == "undefined"
Users == {"u1", "u2"}

\* how a request ends: a response of status 2xx, a response of status 401, any
\* other failure (another status, a network error, the 10000 ms timeout)
Outcomes == {"ok", "401", "error"}

\* logout of the store (authStore.ts lines 66-67), AuthService.logout (lines 54-56)
StoreLogout ==
    /\ user' = "null"
    /\ token' = "null"
    /\ auth_token' = "null"

\* the response interceptor: a 401 logs the user out, every error is rejected
RejectedResponse(status) ==
    IF status = "401" THEN StoreLogout
    ELSE UNCHANGED <<user, token, auth_token>>

\* the catch block of login (authStore.ts lines 44-48)
LoginCatch ==
    /\ isLoading' = FALSE
    /\ loginReturn' = "false"
    /\ loginCall' = NoLoginCall

\* login is called: set({ isLoading: true }), POST /api/auth/login is sent
LoginStart ==
    /\ loginCall.pc = "idle"
    /\ loginNo < MaxLogins
    /\ isLoading' = TRUE
    /\ loginCall' = [pc |-> "login", access_token |-> "null", userBefore |-> user,
                     tokenBefore |-> token]
    /\ loginNo' = loginNo + 1
    /\ loginReturn' = "pending"
    /\ UNCHANGED <<user, token, auth_token, dashVars, now, chatVars>>

\* POST /api/auth/login settles (authService.ts lines 30-38): the token is
\* stored and GET /api/auth/me is sent, or the rejection reaches the catch block
LoginSettle ==
    /\ loginCall.pc = "login"
    /\ \E status \in Outcomes, access_token \in Tokens \cup {NoAccessToken} :
        IF status = "ok"
        THEN /\ auth_token' = IF access_token # NoAccessToken THEN access_token
                              ELSE auth_token
             /\ loginCall' = [loginCall EXCEPT !.pc = "getCurrentUser",
                                               !.access_token = access_token]
             /\ UNCHANGED <<user, token, isLoading, loginReturn>>
        ELSE /\ access_token = NoAccessToken
             /\ RejectedResponse(status)
             /\ LoginCatch
    /\ UNCHANGED <<loginNo, dashVars, now, chatVars>>

\* GET /api/auth/me settles (authService.ts lines 38-43, authStore.ts lines 36-48)
CurrentUserSettle ==
    /\ loginCall.pc = "getCurrentUser"
    /\ \E status \in Outcomes, fetched \in Users :
        IF status = "ok"
        THEN /\ user' = fetched
             /\ token' = loginCall.access_token
             /\ isLoading' = FALSE
             /\ loginReturn' = "true"
             /\ loginCall' = NoLoginCall
             /\ UNCHANGED auth_token
        ELSE /\ fetched = CHOOSE u \in Users : TRUE
             /\ RejectedResponse(status)
             /\ LoginCatch
    /\ UNCHANGED <<loginNo, dashVars, now, chatVars>>

\* logout of the store, called by the user who is logged in
Logout ==
    /\ loginCall.pc = "idle"
    /\ user # "null"
    /\ StoreLogout
    /\ UNCHANGED <<isLoading, loginCall, loginNo, loginReturn, dashVars, now, chatVars>>

InitAuth ==
    /\ AuthCreated
    /\ ChatUnmounted
    /\ executions = <<>>
    /\ dataOps = <<>>
    /\ alerts = <<>>
    /\ timers = <<>>
    /\ now = 0
    /\ tickNo = 0
    /\ nextId = 1
    /\ draws = <<>>
    /\ selectedAlert = <<>>

NextAuth == LoginStart \/ LoginSettle \/ CurrentUserSettle \/ Logout

SpecAuth == InitAuth /\ [][NextAuth]_vars

\* a call of login returns false in this step
LoginFailsInStep ==
    /\ loginCall.pc # "idle"
    /\ loginCall'.pc = "idle"
    /\ loginReturn' = "false"

\* C30: after a login attempt that fails at any step (the credential request is
\* rejected, or the current-user fetch fails after it) the store's user and token
\* are what they were before the attempt, isLoading is false, login returns
\* false, and localStorage has no 'auth_token'.
C30_NoCredentialRetained ==
    [][LoginFailsInStep =>
          /\ user' = loginCall.userBefore
          /\ token' = loginCall.tokenBefore
          /\ isLoading' = FALSE
          /\ auth_token' = "null"]_vars

====
